---- MODULE Spec2Model ----
(***************************************************************************)
(* The Thrift binary and compact protocol codecs of lib/rs/src/protocol:   *)
(* TCompactOutputProtocol, TCompactInputProtocol, TBinaryOutputProtocol,   *)
(* TBinaryInputProtocol.                                                   *)
(* Bytes are the integers 0..255, a transport is the sequence of bytes     *)
(* still to be read (or written and not yet moved to the reader).          *)
(***************************************************************************)
EXTENDS Integers, Sequences, FiniteSets, TLC

VARIABLES
    \* TCompactOutputProtocol
    last_write_field_id,
    write_field_id_stack,
    pending_write_bool_field_identifier,
    o_transport,
    o_panicked,
    \* TCompactInputProtocol
    last_read_field_id,
    read_field_id_stack,
    pending_read_bool_value,
    i_transport,
    i_config,
    i_recursion_depth,
    i_panicked,
    \* TBinaryOutputProtocol
    bo_strict,
    bo_transport,
    \* TBinaryInputProtocol
    bi_strict,
    bi_transport,
    bi_config,
    bi_recursion_depth,
    bi_panicked,
    \* the build profile: are arithmetic overflows checked (debug) or wrapping (release)
    overflow_checks,
    \* history of the calls the caller has made
    ops,        \* encoder calls whose mirrored read has not been issued yet
    wellformed, \* no encoder call other than write_bool ran while a bool field was pending
    written,    \* the last encoder call, with the bytes it wrote and the state it started from
    result,     \* the last decoder call, with what it returned and the state it started from
    nesting,    \* per side, the id of the previous field of each struct that is open
    input       \* what the peer put on the wire of the decoders (SpecDecode)

vars == <<last_write_field_id, write_field_id_stack, pending_write_bool_field_identifier,
          o_transport, o_panicked,
          last_read_field_id, read_field_id_stack, pending_read_bool_value,
          i_transport, i_config, i_recursion_depth, i_panicked,
          bo_strict, bo_transport,
          bi_strict, bi_transport, bi_config, bi_recursion_depth, bi_panicked,
          overflow_checks, ops, wellformed, written, result, nesting, input>>

o_vars == <<last_write_field_id, write_field_id_stack, pending_write_bool_field_identifier,
            o_transport, o_panicked>>
i_vars == <<last_read_field_id, read_field_id_stack, pending_read_bool_value,
            i_transport, i_config, i_recursion_depth, i_panicked>>
bo_vars == <<bo_strict, bo_transport>>
bi_vars == <<bi_strict, bi_transport, bi_config, bi_recursion_depth, bi_panicked>>

-----------------------------------------------------------------------------
(* Option<T> *)
None == <<>>
Some(x) == <<x>>
is_some(o) == o # None
unwrap(o) == o[1]

(* the bounds of the model *)
MaxDepth == 2      \* structs the caller nests
MaxPayload == 2    \* payload bytes the peer sends after a length prefix

(* i16 *)
I16_MAX == (65536 \div 2) - 1
I16_MIN == -I16_MAX - 1
wrap_i16(n) == ((n + 32768) % 65536) - 32768
in_i16(n) == n >= I16_MIN /\ n <= I16_MAX

(* i32: TLC's integers are 32 bits wide, so i32::MIN is written as a difference *)
I32_MAX == 2147483646 + 1
I32_MIN == -I32_MAX - 1

-----------------------------------------------------------------------------
(* integer_encoding::VarInt as the codec calls it *)

\* LEB128 of an unsigned value
RECURSIVE encode_var(_)
encode_var(n) == IF n < 128 THEN <<n>> ELSE <<128 + (n % 128)>> \o encode_var(n \div 128)

\* zig-zag of a signed value: (n << 1) ^ (n >> 63)
zigzag_encode(n) == IF n >= 0 THEN 2 * n ELSE (-2 * n) - 1
zigzag_decode(u) == IF u % 2 = 0 THEN u \div 2 ELSE -((u + 1) \div 2)

\* write_varint(i as u32): the two's complement bit pattern of i, never zig-zag;
\* a negative i has bit 31 set and takes five bytes
encode_var_u32(i) ==
    IF i >= 0 THEN encode_var(i)
    ELSE LET low31 == (i + I32_MAX) + 1
         IN <<128 + (low31 % 128),
              128 + ((low31 \div 128) % 128),
              128 + ((low31 \div 16384) % 128),
              128 + ((low31 \div 2097152) % 128),
              8 + (low31 \div 268435456)>>

\* the bytes read_varint takes from buf: up to and including the first byte
\* whose high bit is clear, never more than maxsize bytes
RECURSIVE varint_take(_, _, _)
varint_take(buf, i, maxsize) ==
    IF i > Len(buf) \/ i > maxsize THEN i - 1
    ELSE IF buf[i] < 128 THEN i
    ELSE varint_take(buf, i + 1, maxsize)

\* the value of the 7-bit groups of buf[1..n], low group first
RECURSIVE decode_var(_, _)
decode_var(buf, n) ==
    IF n = 0 THEN 0 ELSE (buf[1] % 128) + 128 * decode_var(Tail(buf), n - 1)

\* read_varint::<u32>() as i32: the error flag, the value and the bytes consumed.
\* Reading stops with an error at the end of the input or when the fifth byte
\* still has its high bit set.
read_varint_u32(buf) ==
    LET n == varint_take(buf, 1, 5)
        okay == n >= 1 /\ buf[n] < 128
        low31 == IF n = 5
                 THEN decode_var(buf, 4) + 268435456 * (buf[5] % 8)
                 ELSE decode_var(buf, n)
        bit31 == n = 5 /\ (buf[5] \div 8) % 2 = 1
    IN [err |-> ~okay,
        value |-> IF ~okay THEN 0
                  ELSE IF bit31 THEN (low31 - I32_MAX) - 1 ELSE low31,
        used |-> IF okay THEN n ELSE IF n < Len(buf) THEN n + 1 ELSE n]

\* read_varint::<i16>(): zig-zag, then truncated to 16 bits
read_varint_i16(buf) ==
    LET n == varint_take(buf, 1, 3)
        okay == n >= 1 /\ buf[n] < 128
    IN [err |-> ~okay,
        value |-> IF okay THEN wrap_i16(zigzag_decode(decode_var(buf, n))) ELSE 0,
        used |-> IF okay THEN n ELSE IF n < Len(buf) THEN n + 1 ELSE n]

SubSeqFrom(s, k) == SubSeq(s, k, Len(s))

\* ---- an i64 as its 64 bits, the lowest first ----
Bit == {0, 1}
xor(a, b) == IF a = b THEN 0 ELSE 1

\* (1 << n) - 1 and its complement -(1 << n)
ones(n) == [i \in 1..64 |-> IF i <= n THEN 1 ELSE 0]
not_ones(n) == [i \in 1..64 |-> IF i <= n THEN 0 ELSE 1]

\* zig-zag of an i64: (n << 1) ^ (n >> 63)
zigzag_encode_i64(v) == [i \in 1..64 |-> IF i = 1 THEN v[64] ELSE xor(v[i - 1], v[64])]

\* ((u >> 1) as i64) ^ -((u & 1) as i64)
zigzag_decode_i64(u) == [i \in 1..64 |-> IF i = 64 THEN u[1] ELSE xor(u[i + 1], u[1])]

\* the place of the highest bit set, 0 if none is
top_bit(u) == IF \A i \in 1..64 : u[i] = 0 THEN 0
              ELSE CHOOSE i \in 1..64 : u[i] = 1 /\ \A j \in (i + 1)..64 : u[j] = 0

\* the g-th group of seven bits of u, the first being group 0
bit_at(u, i) == IF i <= 64 THEN u[i] ELSE 0
group_of_seven(u, g) ==
    bit_at(u, (7 * g) + 1) + (2 * bit_at(u, (7 * g) + 2)) + (4 * bit_at(u, (7 * g) + 3))
    + (8 * bit_at(u, (7 * g) + 4)) + (16 * bit_at(u, (7 * g) + 5))
    + (32 * bit_at(u, (7 * g) + 6)) + (64 * bit_at(u, (7 * g) + 7))

\* LEB128 of a u64: while n >= 0x80 a byte with the high bit, then the last
encode_var_u64(u) ==
    LET groups == IF top_bit(u) = 0 THEN 1 ELSE ((top_bit(u) - 1) \div 7) + 1
    IN [g \in 1..groups |-> group_of_seven(u, g - 1) + (IF g < groups THEN 128 ELSE 0)]

power_of_two(j) == CASE j = 0 -> 1 [] j = 1 -> 2 [] j = 2 -> 4 [] j = 3 -> 8 [] j = 4 -> 16
                     [] j = 5 -> 32 [] j = 6 -> 64

decode_var_u64_of_nine(buf, n) ==
    [i \in 1..64 |->
        LET g == (i - 1) \div 7
        IN IF g + 1 <= n /\ g < 9
           THEN ((buf[g + 1] % 128) \div power_of_two((i - 1) % 7)) % 2 ELSE 0]

\* the u64 of the 7-bit groups of buf[1..n], low group first
decode_var_u64(buf, n) ==
    [i \in 1..64 |->
        LET g == (i - 1) \div 7
        IN IF g + 1 <= n
           THEN ((buf[g + 1] % 128) \div power_of_two((i - 1) % 7)) % 2 ELSE 0]

\* write_varint(i) of an i64
write_i64(i) == encode_var_u64(zigzag_encode_i64(i))

\* read_varint::<i64>(): at most ten bytes
read_varint_i64(buf) ==
    LET n == varint_take(buf, 1, 10)
        okay == n >= 1 /\ buf[n] < 128
    IN [err |-> ~okay,
        value |-> IF okay THEN zigzag_decode_i64(decode_var_u64(buf, n)) ELSE <<>>,
        used |-> IF okay THEN n ELSE IF n < Len(buf) THEN n + 1 ELSE n]

-----------------------------------------------------------------------------
(* TType and the compact type tables *)

TType == {"Stop", "Void", "Bool", "I08", "Double", "I16", "I32", "I64", "String",
          "Struct", "Map", "Set", "List", "Uuid", "Utf7"}

\* a Result: Ok(v) or the kind of the error returned
Ok(v) == [kind |-> "Ok", v |-> v]
Err(k) == [kind |-> k, v |-> None]
is_ok(r) == r.kind = "Ok"

\* the types type_to_u8 has an arm for; every other type panics
has_compact_u8(field_type) ==
    field_type \in {"Stop", "I08", "I16", "I32", "I64", "Double", "String",
                    "List", "Set", "Map", "Struct", "Uuid"}

type_to_u8(field_type) ==
    CASE field_type = "Stop" -> 0
      [] field_type = "I08" -> 3
      [] field_type = "I16" -> 4
      [] field_type = "I32" -> 5
      [] field_type = "I64" -> 6
      [] field_type = "Double" -> 7
      [] field_type = "String" -> 8
      [] field_type = "List" -> 9
      [] field_type = "Set" -> 10
      [] field_type = "Map" -> 11
      [] field_type = "Struct" -> 12
      [] field_type = "Uuid" -> 13

collection_type_to_u8_scalar(field_type) ==
    IF field_type = "Bool" THEN 2 ELSE type_to_u8(field_type)

collection_type_to_u8(field_type) ==
    IF field_type = "Bool" THEN 1 ELSE type_to_u8(field_type)

u8_to_type(b) ==
    CASE b = 0 -> Ok("Stop")
      [] b = 3 -> Ok("I08")
      [] b = 4 -> Ok("I16")
      [] b = 5 -> Ok("I32")
      [] b = 6 -> Ok("I64")
      [] b = 7 -> Ok("Double")
      [] b = 8 -> Ok("String")
      [] b = 9 -> Ok("List")
      [] b = 10 -> Ok("Set")
      [] b = 11 -> Ok("Map")
      [] b = 12 -> Ok("Struct")
      [] b = 13 -> Ok("Uuid")
      [] OTHER -> Err("InvalidData")

collection_u8_to_type(b) ==
    IF b \in {1, 2} THEN Ok("Bool") ELSE u8_to_type(b)

\* the widths of the integers before they are varint-coded
compact_fixed_width_min_size(field_type) ==
    CASE field_type = "I16" -> 2
      [] field_type = "I32" -> 4
      [] field_type \in {"I64", "Double"} -> 8
      [] field_type = "Uuid" -> 16
      [] OTHER -> 1

compact_protocol_min_serialized_size(field_type) ==
    CASE field_type = "Double" -> 8
      [] field_type = "Uuid" -> 16
      [] OTHER -> 1

-----------------------------------------------------------------------------
(* TCompactOutputProtocol *)

\* a TFieldIdentifier
TFieldIdentifier(name, field_type, id) == [name |-> name, field_type |-> field_type, id |-> id]

write_i16(i) == encode_var(zigzag_encode(i))

short_form_from_zero(field_delta) == field_delta >= 0 /\ field_delta < 15

\* the test of write_field_header that selects the one-byte form
short_form(field_delta) == field_delta > 0 /\ field_delta < 15

\* write_field_header: the subtraction is done in i16, so it aborts in a build
\* with overflow checks and wraps in one without; then the header bytes and the
\* new last_write_field_id
write_field_header(field_type, field_id) ==
    LET exact == field_id - last_write_field_id
        field_delta == wrap_i16(exact)
    IN [panic |-> overflow_checks /\ ~in_i16(exact),
        bytes |-> IF short_form(field_delta)
                  THEN <<((field_delta * 16) % 256) + field_type>>
                  ELSE <<field_type>> \o write_i16(field_id),
        last |-> field_id]

assert_nothing == TRUE

assert_no_pending_bool_write == pending_write_bool_field_identifier = None

pop_field_id_reset(stack) ==
    [last |-> 0, stack |-> SubSeq(stack, 1, Len(stack) - 1)]

\* struct_end of either side: the id stack popped and the last field id it held
pop_field_id(stack) ==
    [last |-> stack[Len(stack)], stack |-> SubSeq(stack, 1, Len(stack) - 1)]

\* ---- the record of a call of a decoder ----
NoResult == [proto |-> "", op |-> "none", kind |-> "", field_type |-> "", id |-> None,
             name |-> None, b |-> FALSE, size |-> 0, key_type |-> None,
             value_type |-> None, bytes |-> <<>>, used |-> 0, panicked |-> FALSE,
             expect |-> None, alloc |-> 0, message_type |-> "", sequence_number |-> 0,
             value |-> <<>>]

\* a decoder's call op on protocol proto returned kind after consuming used bytes
Returned(proto, op, kind, used, expect) ==
    [NoResult EXCEPT !.proto = proto, !.op = op, !.kind = kind, !.used = used,
                     !.expect = expect]

\* ---- what the caller passes ----
FieldIds == {I16_MIN, 0, 1, 2, 16, I16_MAX}
WriteFieldTypes == {"Bool", "I08", "I32", "Struct", "Stop", "Void"}
Names == {Some("foo")}
Identifiers ==
    {TFieldIdentifier(n, t, i) :
        n \in Names, t \in WriteFieldTypes, i \in {None} \cup {Some(x) : x \in FieldIds}}
NoIdentifier == TFieldIdentifier(None, "", None)

\* ---- the fields of the structs that are open, as the caller has issued them ----
\* open: for each enclosing struct the id of its last field so far (0 if none);
\* prev: the same for the innermost struct. A Bool field counts once its header
\* is out, that is at write_bool.
NoNesting == [w |-> [open |-> <<>>, prev |-> 0], r |-> [open |-> <<>>, prev |-> 0]]

Nested(n, side, op, id, deferred) ==
    LET s == n[side]
    IN CASE op = "struct_begin" ->
              [n EXCEPT ![side] = [open |-> Append(s.open, s.prev), prev |-> 0]]
         [] op = "struct_end" /\ s.open # <<>> ->
              [n EXCEPT ![side] = [open |-> SubSeq(s.open, 1, Len(s.open) - 1),
                                   prev |-> s.open[Len(s.open)]]]
         [] op \in {"field_begin", "bool"} /\ is_some(id) /\ ~deferred ->
              [n EXCEPT ![side] = [open |-> s.open, prev |-> unwrap(id)]]
         [] OTHER -> n

\* ---- the record of a call of the encoder ----
NoCall == [op |-> "none", identifier |-> NoIdentifier, b |-> FALSE, bytes |-> <<>>,
           panicked |-> FALSE, last0 |-> 0, pending0 |-> FALSE, kind |-> ""]

\* The caller issues the encoder's calls one at a time and mirrors each on the
\* decoder before the next; the header of a Bool field only exists once
\* write_bool has run, so that one call may follow before the mirrored read.
\* The caller stops after a call that has no mirrored read.
EncoderMayRun ==
    /\ ~o_panicked
    /\ wellformed
    /\ \/ ops = <<>>
       \/ pending_write_bool_field_identifier # None

\* A call that is no use of the encoder a mirrored read exists for: any call but
\* write_bool while a bool field is pending, and a field identifier of type Stop
\* (a stop is written by write_field_stop).
Misuse(op, identifier) ==
    \/ pending_write_bool_field_identifier # None /\ op # "bool"
    \/ op = "field_begin" /\ identifier.field_type = "Stop"

Call(op, identifier, b, bytes, panic) ==
    /\ written' = [op |-> op, identifier |-> identifier, b |-> b, bytes |-> bytes,
                   panicked |-> panic, last0 |-> last_write_field_id,
                   pending0 |-> is_some(pending_write_bool_field_identifier),
                   kind |-> IF panic THEN "" ELSE "Ok"]
    /\ o_transport' = o_transport \o bytes
    /\ o_panicked' = panic
    /\ wellformed' = (wellformed /\ (panic \/ ~Misuse(op, identifier)))
    /\ ops' = IF panic THEN ops
              ELSE IF ~wellformed' THEN <<>>
              ELSE Append(ops, [op |-> op, field_type |-> identifier.field_type,
                                id |-> identifier.id, b |-> b])
    /\ result' = NoResult
    /\ nesting' = IF panic \/ ~wellformed' THEN nesting
                  ELSE Nested(nesting, "w", op, identifier.id,
                              op = "field_begin" /\ identifier.field_type = "Bool")
    /\ UNCHANGED <<i_vars, bo_vars, bi_vars, overflow_checks, input>>

Panic(op, identifier, b) == Call(op, identifier, b, <<>>, TRUE)

write_struct_begin ==
    /\ EncoderMayRun
    /\ Len(write_field_id_stack) < MaxDepth
    /\ write_field_id_stack' = Append(write_field_id_stack, last_write_field_id)
    /\ last_write_field_id' = 0
    /\ UNCHANGED pending_write_bool_field_identifier
    /\ Call("struct_begin", NoIdentifier, FALSE, <<>>, FALSE)

write_struct_end_lenient ==
    /\ EncoderMayRun
    /\ IF ~assert_no_pending_bool_write
       THEN /\ Panic("struct_end", NoIdentifier, FALSE)
            /\ UNCHANGED <<last_write_field_id, write_field_id_stack,
                           pending_write_bool_field_identifier>>
       ELSE IF write_field_id_stack = <<>>
       THEN /\ UNCHANGED <<last_write_field_id, write_field_id_stack,
                           pending_write_bool_field_identifier>>
            /\ Call("struct_end", NoIdentifier, FALSE, <<>>, FALSE)
       ELSE /\ last_write_field_id' = pop_field_id(write_field_id_stack).last
            /\ write_field_id_stack' = pop_field_id(write_field_id_stack).stack
            /\ UNCHANGED pending_write_bool_field_identifier
            /\ Call("struct_end", NoIdentifier, FALSE, <<>>, FALSE)

write_struct_end ==
    /\ EncoderMayRun
    /\ IF ~assert_no_pending_bool_write \/ write_field_id_stack = <<>>
       THEN /\ Panic("struct_end", NoIdentifier, FALSE)
            /\ UNCHANGED <<last_write_field_id, write_field_id_stack,
                           pending_write_bool_field_identifier>>
       ELSE /\ last_write_field_id' = pop_field_id(write_field_id_stack).last
            /\ write_field_id_stack' = pop_field_id(write_field_id_stack).stack
            /\ UNCHANGED pending_write_bool_field_identifier
            /\ Call("struct_end", NoIdentifier, FALSE, <<>>, FALSE)

write_field_begin ==
    /\ EncoderMayRun
    /\ \E identifier \in Identifiers :
        IF identifier.field_type = "Bool"
        THEN IF is_some(pending_write_bool_field_identifier)
             THEN /\ Panic("field_begin", identifier, FALSE)
                  /\ UNCHANGED <<last_write_field_id, write_field_id_stack,
                                 pending_write_bool_field_identifier>>
             ELSE /\ pending_write_bool_field_identifier' = Some(identifier)
                  /\ UNCHANGED <<last_write_field_id, write_field_id_stack>>
                  /\ Call("field_begin", identifier, FALSE, <<>>, FALSE)
        ELSE IF ~has_compact_u8(identifier.field_type) \/ identifier.id = None
             THEN /\ Panic("field_begin", identifier, FALSE)
                  /\ UNCHANGED <<last_write_field_id, write_field_id_stack,
                                 pending_write_bool_field_identifier>>
             ELSE LET h == write_field_header(type_to_u8(identifier.field_type),
                                              unwrap(identifier.id))
                  IN /\ last_write_field_id' =
                            IF h.panic THEN last_write_field_id ELSE h.last
                     /\ UNCHANGED <<write_field_id_stack,
                                    pending_write_bool_field_identifier>>
                     /\ Call("field_begin", identifier, FALSE,
                             IF h.panic THEN <<>> ELSE h.bytes, h.panic)

write_field_end ==
    /\ EncoderMayRun
    /\ UNCHANGED <<last_write_field_id, write_field_id_stack,
                   pending_write_bool_field_identifier>>
    /\ Call("field_end", NoIdentifier, FALSE, <<>>, ~assert_no_pending_bool_write)

write_field_stop ==
    /\ EncoderMayRun
    /\ UNCHANGED <<last_write_field_id, write_field_id_stack,
                   pending_write_bool_field_identifier>>
    /\ IF assert_no_pending_bool_write
       THEN Call("field_stop", NoIdentifier, FALSE, <<type_to_u8("Stop")>>, FALSE)
       ELSE Panic("field_stop", NoIdentifier, FALSE)

bool_field_type_swapped(b) == IF b THEN 2 ELSE 1

\* the type nibble write_bool puts in the header of a pending bool field
bool_field_type_as_u8(b) == IF b THEN 1 ELSE 2

write_bool ==
    /\ EncoderMayRun
    /\ \E b \in BOOLEAN :
        IF is_some(pending_write_bool_field_identifier)
        THEN LET pending == unwrap(pending_write_bool_field_identifier)
             IN /\ pending_write_bool_field_identifier' = None
                /\ UNCHANGED write_field_id_stack
                /\ IF pending.id = None
                   THEN /\ UNCHANGED last_write_field_id
                        /\ Panic("bool", pending, b)
                   ELSE LET h == write_field_header(bool_field_type_as_u8(b),
                                                    unwrap(pending.id))
                        IN /\ last_write_field_id' =
                                  IF h.panic THEN last_write_field_id ELSE h.last
                           /\ Call("bool", pending, b,
                                   IF h.panic THEN <<>> ELSE h.bytes, h.panic)
        ELSE /\ UNCHANGED <<last_write_field_id, write_field_id_stack,
                            pending_write_bool_field_identifier>>
             /\ Call("bool", NoIdentifier, b, <<IF b THEN 1 ELSE 2>>, FALSE)

write_message_end ==
    /\ EncoderMayRun
    /\ UNCHANGED <<last_write_field_id, write_field_id_stack,
                   pending_write_bool_field_identifier>>
    /\ Call("message_end", NoIdentifier, FALSE, <<>>, ~assert_no_pending_bool_write)

\* copy_write_buffer_to_read_buffer!: the written bytes become readable
copy_write_buffer_to_read_buffer ==
    /\ o_transport # <<>>
    /\ i_transport' = i_transport \o o_transport
    /\ o_transport' = <<>>
    /\ UNCHANGED <<last_write_field_id, write_field_id_stack,
                   pending_write_bool_field_identifier, o_panicked,
                   last_read_field_id, read_field_id_stack, pending_read_bool_value,
                   i_config, i_recursion_depth, i_panicked,
                   bo_vars, bi_vars, overflow_checks, ops, wellformed, written, result,
                   nesting, input>>

-----------------------------------------------------------------------------
(* TConfiguration *)

TConfiguration(message, container, string, depth) ==
    [max_message_size |-> message, max_container_size |-> container,
     max_string_size |-> string, max_recursion_depth |-> depth]

no_limits == TConfiguration(None, None, None, None)

\* check_container_size(config, container_size, element_size). The product is
\* compared by division: container_size * element_size exceeds the budget
\* exactly when container_size exceeds budget \div element_size.
check_container_size(config, container_size, element_size) ==
    IF container_size < 0 THEN Err("NegativeSize")
    ELSE IF is_some(config.max_container_size)
            /\ container_size > unwrap(config.max_container_size)
    THEN Err("SizeLimit")
    ELSE IF is_some(config.max_message_size)
            /\ container_size > unwrap(config.max_message_size) \div element_size
    THEN Err("SizeLimit")
    ELSE Ok(None)

-----------------------------------------------------------------------------------------------------------------------------------------------------
(* TCompactInputProtocol *)

depth_exceeds(recursion_depth, limit) == recursion_depth < 0 \/ recursion_depth > limit

\* self.recursion_depth >= limit; a negative recursion_depth stands for the
\* usize an unmatched read_struct_end wrapped around
depth_reached(recursion_depth, limit) == recursion_depth < 0 \/ recursion_depth >= limit

\* check_recursion_depth, the same in both decoders
check_recursion_depth(config, recursion_depth) ==
    IF is_some(config.max_recursion_depth)
       /\ depth_reached(recursion_depth, unwrap(config.max_recursion_depth))
    THEN Err("DepthLimit")
    ELSE Ok(None)

i_frame ==
    /\ written' = NoCall
    /\ UNCHANGED <<o_vars, bo_vars, bi_vars, i_config, overflow_checks, input>>

\* a read_struct_begin that saves the field id before it checks the depth
i_read_struct_begin_pushing(expect) ==
    /\ ~i_panicked
    /\ LET r == check_recursion_depth(i_config, i_recursion_depth)
       IN /\ result' = Returned("compact", "struct_begin", r.kind, 0, expect)
          /\ i_recursion_depth' = IF is_ok(r) THEN i_recursion_depth + 1
                                  ELSE i_recursion_depth
          /\ read_field_id_stack' = Append(read_field_id_stack, last_read_field_id)
          /\ last_read_field_id' = 0
    /\ UNCHANGED <<pending_read_bool_value, i_transport, i_panicked>>
    /\ i_frame

i_read_struct_begin(expect) ==
    /\ ~i_panicked
    /\ LET r == check_recursion_depth(i_config, i_recursion_depth)
       IN /\ result' = Returned("compact", "struct_begin", r.kind, 0, expect)
          /\ IF is_ok(r)
             THEN /\ i_recursion_depth' = i_recursion_depth + 1
                  /\ read_field_id_stack' = Append(read_field_id_stack, last_read_field_id)
                  /\ last_read_field_id' = 0
             ELSE UNCHANGED <<i_recursion_depth, read_field_id_stack, last_read_field_id>>
    /\ UNCHANGED <<pending_read_bool_value, i_transport, i_panicked>>
    /\ i_frame

\* recursion_depth is a usize: at 0 the decrement aborts with overflow checks and
\* wraps without (the wrapped value is kept as -1); pop() of the empty stack
\* then aborts in every build
i_read_struct_end(expect) ==
    /\ ~i_panicked
    /\ LET underflow == i_recursion_depth = 0
           empty == read_field_id_stack = <<>>
           panic == (overflow_checks /\ underflow) \/ empty
       IN /\ result' = [Returned("compact", "struct_end",
                                 IF panic THEN "" ELSE "Ok", 0, expect)
                           EXCEPT !.panicked = panic]
          /\ i_panicked' = panic
          /\ i_recursion_depth' = IF overflow_checks /\ underflow
                                  THEN i_recursion_depth ELSE i_recursion_depth - 1
          /\ IF panic
             THEN UNCHANGED <<last_read_field_id, read_field_id_stack>>
             ELSE /\ last_read_field_id' = pop_field_id(read_field_id_stack).last
                  /\ read_field_id_stack' = pop_field_id(read_field_id_stack).stack
    /\ UNCHANGED <<pending_read_bool_value, i_transport>>
    /\ i_frame

\* the bool a field header's type nibble carries, if it is a bool field
field_bool_value(nibble) ==
    IF nibble = 1 THEN Some(TRUE) ELSE IF nibble = 2 THEN Some(FALSE) ELSE None

\* the field type of a field header's type nibble
field_type_of(nibble) ==
    IF nibble \in {1, 2} THEN Ok("Bool") ELSE u8_to_type(nibble)

\* last_read_field_id += field_delta as i16
\* a decoder that takes the delta nibble for the id
assign_field_delta(last, field_delta) == [panic |-> FALSE, value |-> field_delta]

add_field_delta(last, field_delta) ==
    [panic |-> overflow_checks /\ ~in_i16(last + field_delta),
     value |-> wrap_i16(last + field_delta)]

i_read_field_begin(expect) ==
    /\ ~i_panicked
    /\ IF i_transport = <<>>
       THEN /\ result' = Returned("compact", "field_begin", "Transport", 0, expect)
            /\ UNCHANGED <<last_read_field_id, pending_read_bool_value, i_transport,
                           i_panicked>>
       ELSE LET byte == i_transport[1]
                field_delta == (byte \div 16) % 16
                nibble == byte % 16
                field_type == field_type_of(nibble)
                pending == IF is_some(field_bool_value(nibble))
                           THEN field_bool_value(nibble)
                           ELSE pending_read_bool_value
                rest == Tail(i_transport)
            IN IF ~is_ok(field_type)
               THEN /\ result' = Returned("compact", "field_begin", field_type.kind, 1, expect)
                    /\ i_transport' = rest
                    /\ UNCHANGED <<last_read_field_id, pending_read_bool_value, i_panicked>>
               ELSE IF field_type.v = "Stop"
               THEN /\ result' = [Returned("compact", "field_begin", "Ok", 1, expect)
                                     EXCEPT !.field_type = "Stop"]
                    /\ i_transport' = rest
                    /\ UNCHANGED <<last_read_field_id, pending_read_bool_value, i_panicked>>
               ELSE IF field_delta # 0
               THEN LET sum == add_field_delta(last_read_field_id, field_delta)
                    IN /\ pending_read_bool_value' = pending
                       /\ i_transport' = rest
                       /\ i_panicked' = sum.panic
                       /\ last_read_field_id' =
                              IF sum.panic THEN last_read_field_id ELSE sum.value
                       /\ result' =
                              IF sum.panic
                              THEN [Returned("compact", "field_begin", "", 1, expect)
                                       EXCEPT !.panicked = TRUE]
                              ELSE [Returned("compact", "field_begin", "Ok", 1, expect)
                                       EXCEPT !.field_type = field_type.v,
                                              !.id = Some(sum.value)]
               ELSE LET v == read_varint_i16(rest)
                    IN /\ pending_read_bool_value' = pending
                       /\ i_transport' = SubSeqFrom(rest, v.used + 1)
                       /\ UNCHANGED i_panicked
                       /\ last_read_field_id' =
                              IF v.err THEN last_read_field_id ELSE v.value
                       /\ result' =
                              IF v.err
                              THEN Returned("compact", "field_begin", "Transport",
                                            1 + v.used, expect)
                              ELSE [Returned("compact", "field_begin", "Ok",
                                             1 + v.used, expect)
                                       EXCEPT !.field_type = field_type.v,
                                              !.id = Some(v.value)]
    /\ UNCHANGED <<read_field_id_stack, i_recursion_depth>>
    /\ i_frame

i_read_field_end(expect) ==
    /\ ~i_panicked
    /\ result' = Returned("compact", "field_end", "Ok", 0, expect)
    /\ UNCHANGED <<last_read_field_id, read_field_id_stack, pending_read_bool_value,
                   i_transport, i_recursion_depth, i_panicked>>
    /\ i_frame

i_read_message_end(expect) ==
    /\ ~i_panicked
    /\ result' = Returned("compact", "message_end", "Ok", 0, expect)
    /\ UNCHANGED <<last_read_field_id, read_field_id_stack, pending_read_bool_value,
                   i_transport, i_recursion_depth, i_panicked>>
    /\ i_frame

bool_of_byte_nonzero(b) ==
    IF b = 0 THEN Ok(FALSE) ELSE IF b \in {1, 2} THEN Ok(TRUE) ELSE Err("InvalidData")

\* the bool read_bool makes of a byte read from the transport
bool_of_byte(b) ==
    IF b = 0 THEN Ok(FALSE) ELSE IF b = 1 THEN Ok(TRUE) ELSE IF b = 2 THEN Ok(FALSE)
    ELSE Err("InvalidData")

i_read_bool(expect) ==
    /\ ~i_panicked
    /\ pending_read_bool_value' = None
    /\ IF is_some(pending_read_bool_value)
       THEN /\ result' = [Returned("compact", "bool", "Ok", 0, expect)
                             EXCEPT !.b = unwrap(pending_read_bool_value)]
            /\ UNCHANGED i_transport
       ELSE IF i_transport = <<>>
       THEN /\ result' = Returned("compact", "bool", "Transport", 0, expect)
            /\ UNCHANGED i_transport
       ELSE LET r == bool_of_byte(i_transport[1])
            IN /\ result' = [Returned("compact", "bool", r.kind, 1, expect)
                                EXCEPT !.b = IF is_ok(r) THEN r.v ELSE FALSE]
               /\ i_transport' = Tail(i_transport)
    /\ UNCHANGED <<last_read_field_id, read_field_id_stack, i_recursion_depth, i_panicked>>
    /\ i_frame

\* read_list_set_begin
i_header_element_count(possible_element_count, varint) == possible_element_count

\* the element count of a list or set header: the high nibble of the header,
\* or the varint that follows when the nibble is 15
i_element_count(possible_element_count, varint) ==
    IF possible_element_count # 15 THEN possible_element_count ELSE varint

i_read_list_set_begin(op) ==
    /\ ~i_panicked
    /\ IF i_transport = <<>>
       THEN /\ result' = Returned("compact", op, "Transport", 0, None)
            /\ UNCHANGED i_transport
       ELSE LET header == i_transport[1]
                element_type == collection_u8_to_type(header % 16)
                possible_element_count == (header \div 16) % 16
                rest == Tail(i_transport)
                v == read_varint_u32(rest)
                element_count == i_element_count(possible_element_count, v.value)
                used == IF possible_element_count # 15 THEN 1 ELSE 1 + v.used
            IN IF ~is_ok(element_type)
               THEN /\ result' = Returned("compact", op, element_type.kind, 1, None)
                    /\ i_transport' = rest
               ELSE IF possible_element_count = 15 /\ v.err
               THEN /\ result' = Returned("compact", op, "Transport", used, None)
                    /\ i_transport' = SubSeqFrom(i_transport, used + 1)
               ELSE LET min_element_size ==
                            compact_protocol_min_serialized_size(element_type.v)
                        c == check_container_size(i_config, element_count, min_element_size)
                    IN /\ i_transport' = SubSeqFrom(i_transport, used + 1)
                       /\ result' =
                              IF is_ok(c)
                              THEN [Returned("compact", op, "Ok", used, None)
                                       EXCEPT !.field_type = element_type.v,
                                              !.size = element_count]
                              ELSE Returned("compact", op, c.kind, used, None)
    /\ UNCHANGED <<last_read_field_id, read_field_id_stack, pending_read_bool_value,
                   i_recursion_depth, i_panicked>>
    /\ i_frame

i_map_element_size_of_key(key_min_size, value_min_size) == key_min_size

\* the element size read_map_begin passes to check_container_size
i_map_element_size(key_min_size, value_min_size) == key_min_size + value_min_size

i_read_map_begin ==
    /\ ~i_panicked
    /\ LET v == read_varint_u32(i_transport)
           element_count == v.value
           rest == SubSeqFrom(i_transport, v.used + 1)
       IN IF v.err
          THEN /\ result' = Returned("compact", "map_begin", "Transport", v.used, None)
               /\ i_transport' = rest
          ELSE IF element_count = 0
          THEN /\ result' = Returned("compact", "map_begin", "Ok", v.used, None)
               /\ i_transport' = rest
          ELSE IF rest = <<>>
          THEN /\ result' = Returned("compact", "map_begin", "Transport", v.used, None)
               /\ i_transport' = rest
          ELSE LET type_header == rest[1]
                   key_type == collection_u8_to_type((type_header \div 16) % 16)
                   val_type == collection_u8_to_type(type_header % 16)
                   used == v.used + 1
               IN /\ i_transport' = Tail(rest)
                  /\ IF ~is_ok(key_type)
                     THEN result' = Returned("compact", "map_begin", key_type.kind, used, None)
                     ELSE IF ~is_ok(val_type)
                     THEN result' = Returned("compact", "map_begin", val_type.kind, used, None)
                     ELSE LET element_size ==
                                  i_map_element_size(
                                      compact_protocol_min_serialized_size(key_type.v),
                                      compact_protocol_min_serialized_size(val_type.v))
                              c == check_container_size(i_config, element_count, element_size)
                          IN result' =
                                 IF is_ok(c)
                                 THEN [Returned("compact", "map_begin", "Ok", used, None)
                                          EXCEPT !.key_type = Some(key_type.v),
                                                 !.value_type = Some(val_type.v),
                                                 !.size = element_count]
                                 ELSE Returned("compact", "map_begin", c.kind, used, None)
    /\ UNCHANGED <<last_read_field_id, read_field_id_stack, pending_read_bool_value,
                   i_recursion_depth, i_panicked>>
    /\ i_frame

\* String::from_utf8: is bytes well-formed UTF-8
cont(b) == b >= 128 /\ b <= 191
RECURSIVE from_utf8(_)
from_utf8(bytes) ==
    IF bytes = <<>> THEN TRUE
    ELSE LET b == bytes[1]
             n == Len(bytes)
         IN IF b < 128 THEN from_utf8(Tail(bytes))
            ELSE IF b >= 194 /\ b <= 223
            THEN n >= 2 /\ cont(bytes[2]) /\ from_utf8(SubSeqFrom(bytes, 3))
            ELSE IF b >= 224 /\ b <= 239
            THEN /\ n >= 3
                 /\ cont(bytes[2]) /\ cont(bytes[3])
                 /\ b = 224 => bytes[2] >= 160
                 /\ b = 237 => bytes[2] <= 159
                 /\ from_utf8(SubSeqFrom(bytes, 4))
            ELSE IF b >= 240 /\ b <= 244
            THEN /\ n >= 4
                 /\ cont(bytes[2]) /\ cont(bytes[3]) /\ cont(bytes[4])
                 /\ b = 240 => bytes[2] >= 144
                 /\ b = 244 => bytes[2] <= 143
                 /\ from_utf8(SubSeqFrom(bytes, 5))
            ELSE FALSE

string_size_exceeds_or_equals(len, max_size) == len >= max_size

\* the test of read_bytes against max_string_size
string_size_exceeds(len, max_size) == len > max_size

\* read_bytes on the bytes buf: what it returns, how many bytes it takes and
\* the size of the buffer it allocates. len is a u32: a value of 2^31 or more
\* is kept as the negative i32 of the same bits and is larger than every
\* limit. Without a limit the buffer of len bytes is allocated and read_exact
\* fails at the end of the input.
i_bytes(buf, config) ==
    LET v == read_varint_u32(buf)
        len == v.value
        rest == SubSeqFrom(buf, v.used + 1)
    IN IF v.err
       THEN [kind |-> "Transport", bytes |-> <<>>, used |-> v.used, alloc |-> 0]
       ELSE IF is_some(config.max_string_size)
               /\ (len < 0 \/ string_size_exceeds(len, unwrap(config.max_string_size)))
       THEN [kind |-> "SizeLimit", bytes |-> <<>>, used |-> v.used, alloc |-> 0]
       ELSE IF len < 0 \/ len > Len(rest)
       THEN [kind |-> "Transport", bytes |-> <<>>, used |-> Len(buf), alloc |-> len]
       ELSE [kind |-> "Ok", bytes |-> SubSeq(rest, 1, len), used |-> v.used + len,
             alloc |-> len]

\* read_string: read_bytes followed by String::from_utf8
i_string(buf, config) ==
    LET r == i_bytes(buf, config)
    IN IF r.kind = "Ok" /\ ~from_utf8(r.bytes)
       THEN [r EXCEPT !.kind = "InvalidData", !.bytes = <<>>]
       ELSE r

\* read_bytes and read_string
i_read_bytes(op) ==
    /\ ~i_panicked
    /\ LET r == IF op = "string" THEN i_string(i_transport, i_config)
                ELSE i_bytes(i_transport, i_config)
       IN /\ result' = [Returned("compact", op, r.kind, r.used, None)
                           EXCEPT !.bytes = r.bytes, !.alloc = r.alloc]
          /\ i_transport' = SubSeqFrom(i_transport, r.used + 1)
    /\ UNCHANGED <<last_read_field_id, read_field_id_stack, pending_read_bool_value,
                   i_recursion_depth, i_panicked>>
    /\ i_frame

-----------------------------------------------------------------------------
(* TBinaryInputProtocol *)

field_type_from_u8_of_nibble(b) == u8_to_type(b)

field_type_from_u8(b) ==
    CASE b = 0 -> Ok("Stop")
      [] b = 1 -> Ok("Void")
      [] b = 2 -> Ok("Bool")
      [] b = 3 -> Ok("I08")
      [] b = 4 -> Ok("Double")
      [] b = 6 -> Ok("I16")
      [] b = 8 -> Ok("I32")
      [] b = 10 -> Ok("I64")
      [] b = 11 -> Ok("String")
      [] b = 12 -> Ok("Struct")
      [] b = 13 -> Ok("Map")
      [] b = 14 -> Ok("Set")
      [] b = 15 -> Ok("List")
      [] b = 16 -> Ok("Uuid")
      [] OTHER -> Err("InvalidData")

\* TBinaryInputProtocol::min_serialized_size
min_serialized_size(field_type) ==
    CASE field_type \in {"Stop", "Void", "Bool", "I08", "Struct", "Utf7"} -> 1
      [] field_type = "I16" -> 2
      [] field_type \in {"I32", "String", "Map", "Set", "List"} -> 4
      [] field_type \in {"Double", "I64"} -> 8
      [] field_type = "Uuid" -> 16

\* write_i32::<BigEndian>
write_i32(i) ==
    LET low31 == IF i >= 0 THEN i ELSE (i + I32_MAX) + 1
    IN <<(IF i >= 0 THEN 0 ELSE 128) + (low31 \div 16777216),
         (low31 \div 65536) % 256, (low31 \div 256) % 256, low31 % 256>>

read_i32_little_endian(buf) ==
    LET low31 == ((buf[4] % 128) * 16777216) + (buf[3] * 65536) + (buf[2] * 256) + buf[1]
    IN IF buf[4] >= 128 THEN (low31 - I32_MAX) - 1 ELSE low31

\* read_i32::<BigEndian> of the first four bytes of buf
read_i32(buf) ==
    LET low31 == ((buf[1] % 128) * 16777216) + (buf[2] * 65536) + (buf[3] * 256) + buf[4]
    IN IF buf[1] >= 128 THEN (low31 - I32_MAX) - 1 ELSE low31

bi_frame ==
    /\ written' = NoCall
    /\ UNCHANGED <<o_vars, bo_vars, i_vars, bi_strict, bi_config, overflow_checks, input>>

bi_read_struct_begin ==
    /\ ~bi_panicked
    /\ LET r == check_recursion_depth(bi_config, bi_recursion_depth)
       IN /\ result' = Returned("binary", "struct_begin", r.kind, 0, None)
          /\ bi_recursion_depth' =
                 IF is_ok(r) THEN bi_recursion_depth + 1 ELSE bi_recursion_depth
    /\ UNCHANGED <<bi_transport, bi_panicked>>
    /\ bi_frame

\* recursion_depth is a usize: at 0 the decrement aborts with overflow checks
\* and wraps to usize::MAX without (kept as -1, which the next increment takes
\* back to 0)
bi_read_struct_end ==
    /\ ~bi_panicked
    /\ LET panic == overflow_checks /\ bi_recursion_depth = 0
       IN /\ result' = [Returned("binary", "struct_end", IF panic THEN "" ELSE "Ok", 0, None)
                           EXCEPT !.panicked = panic]
          /\ bi_panicked' = panic
          /\ bi_recursion_depth' =
                 IF panic THEN bi_recursion_depth ELSE bi_recursion_depth - 1
    /\ UNCHANGED bi_transport
    /\ bi_frame

\* read_list_begin and read_set_begin
bi_read_list_begin(op) ==
    /\ ~bi_panicked
    /\ IF bi_transport = <<>>
       THEN /\ result' = Returned("binary", op, "Transport", 0, None)
            /\ UNCHANGED bi_transport
       ELSE LET element_type == field_type_from_u8(bi_transport[1])
                rest == Tail(bi_transport)
            IN IF ~is_ok(element_type)
               THEN /\ result' = Returned("binary", op, element_type.kind, 1, None)
                    /\ bi_transport' = rest
               ELSE IF Len(rest) < 4
               THEN /\ result' = Returned("binary", op, "Transport", Len(bi_transport), None)
                    /\ bi_transport' = <<>>
               ELSE LET size == read_i32(rest)
                        min_element_size == min_serialized_size(element_type.v)
                        c == check_container_size(bi_config, size, min_element_size)
                    IN /\ bi_transport' = SubSeqFrom(rest, 5)
                       /\ result' =
                              IF is_ok(c)
                              THEN [Returned("binary", op, "Ok", 5, None)
                                       EXCEPT !.field_type = element_type.v, !.size = size]
                              ELSE Returned("binary", op, c.kind, 5, None)
    /\ UNCHANGED <<bi_recursion_depth, bi_panicked>>
    /\ bi_frame

bi_map_element_size_of_key(key_min_size, value_min_size) == key_min_size

\* the element size read_map_begin passes to check_container_size
bi_map_element_size(key_min_size, value_min_size) == key_min_size + value_min_size

bi_read_map_begin ==
    /\ ~bi_panicked
    /\ IF bi_transport = <<>>
       THEN /\ result' = Returned("binary", "map_begin", "Transport", 0, None)
            /\ UNCHANGED bi_transport
       ELSE LET key_type == field_type_from_u8(bi_transport[1])
                rest == Tail(bi_transport)
            IN IF ~is_ok(key_type)
               THEN /\ result' = Returned("binary", "map_begin", key_type.kind, 1, None)
                    /\ bi_transport' = rest
               ELSE IF rest = <<>>
               THEN /\ result' = Returned("binary", "map_begin", "Transport", 1, None)
                    /\ bi_transport' = rest
               ELSE LET value_type == field_type_from_u8(rest[1])
                        rest2 == Tail(rest)
                    IN IF ~is_ok(value_type)
                       THEN /\ result' = Returned("binary", "map_begin", value_type.kind,
                                                  2, None)
                            /\ bi_transport' = rest2
                       ELSE IF Len(rest2) < 4
                       THEN /\ result' = Returned("binary", "map_begin", "Transport",
                                                  Len(bi_transport), None)
                            /\ bi_transport' = <<>>
                       ELSE LET size == read_i32(rest2)
                                element_size ==
                                    bi_map_element_size(min_serialized_size(key_type.v),
                                                        min_serialized_size(value_type.v))
                                c == check_container_size(bi_config, size, element_size)
                            IN /\ bi_transport' = SubSeqFrom(rest2, 5)
                               /\ result' =
                                      IF is_ok(c)
                                      THEN [Returned("binary", "map_begin", "Ok", 6, None)
                                               EXCEPT !.key_type = Some(key_type.v),
                                                      !.value_type = Some(value_type.v),
                                                      !.size = size]
                                      ELSE Returned("binary", "map_begin", c.kind, 6, None)
    /\ UNCHANGED <<bi_recursion_depth, bi_panicked>>
    /\ bi_frame

bi_negative_size_unchecked(num_bytes) == FALSE

\* the first test of read_bytes
bi_negative_size(num_bytes) == num_bytes < 0

\* read_bytes on the bytes buf: what it returns, how many bytes it takes and
\* the size of the buffer it allocates
bi_bytes(buf, config) ==
    IF Len(buf) < 4
    THEN [kind |-> "Transport", bytes |-> <<>>, used |-> Len(buf), alloc |-> 0]
    ELSE LET num_bytes == read_i32(buf)
             rest == SubSeqFrom(buf, 5)
         IN IF bi_negative_size(num_bytes)
            THEN [kind |-> "NegativeSize", bytes |-> <<>>, used |-> 4, alloc |-> 0]
            ELSE IF is_some(config.max_string_size)
                    /\ string_size_exceeds(num_bytes, unwrap(config.max_string_size))
            THEN [kind |-> "SizeLimit", bytes |-> <<>>, used |-> 4, alloc |-> 0]
            ELSE IF num_bytes < 0 \/ num_bytes > Len(rest)
            THEN [kind |-> "Transport", bytes |-> <<>>, used |-> Len(buf),
                  alloc |-> num_bytes]
            ELSE [kind |-> "Ok", bytes |-> SubSeq(rest, 1, num_bytes),
                  used |-> 4 + num_bytes, alloc |-> num_bytes]

\* read_string: read_bytes followed by String::from_utf8
bi_string(buf, config) ==
    LET r == bi_bytes(buf, config)
    IN IF r.kind = "Ok" /\ ~from_utf8(r.bytes)
       THEN [r EXCEPT !.kind = "InvalidData", !.bytes = <<>>]
       ELSE r

\* read_bytes and read_string
bi_read_bytes(op) ==
    /\ ~bi_panicked
    /\ LET r == IF op = "string" THEN bi_string(bi_transport, bi_config)
                ELSE bi_bytes(bi_transport, bi_config)
       IN /\ result' = [Returned("binary", op, r.kind, r.used, None)
                           EXCEPT !.bytes = r.bytes, !.alloc = r.alloc]
          /\ bi_transport' = SubSeqFrom(bi_transport, r.used + 1)
    /\ UNCHANGED <<bi_recursion_depth, bi_panicked>>
    /\ bi_frame

-----------------------------------------------------------------------------
(* Message envelopes *)

\* a TMessageIdentifier; name is the UTF-8 bytes of the name
TMessageIdentifier(name, message_type, sequence_number) ==
    [name |-> name, message_type |-> message_type, sequence_number |-> sequence_number]

TMessageType == {"Call", "Reply", "Exception", "OneWay"}

\* u8::from(TMessageType)
message_type_to_u8(message_type) ==
    CASE message_type = "Call" -> 1
      [] message_type = "Reply" -> 2
      [] message_type = "Exception" -> 3
      [] message_type = "OneWay" -> 4

\* TMessageType::try_from(u8)
message_type_from_u8(b) ==
    CASE b = 1 -> Ok("Call")
      [] b = 2 -> Ok("Reply")
      [] b = 3 -> Ok("Exception")
      [] b = 4 -> Ok("OneWay")
      [] OTHER -> Err("InvalidData")

\* the record of a write_message_begin
MessageCall(identifier, bytes) ==
    [op |-> "message_begin", identifier |-> identifier, b |-> FALSE, bytes |-> bytes,
     panicked |-> FALSE, last0 |-> last_write_field_id,
     pending0 |-> is_some(pending_write_bool_field_identifier), kind |-> "Ok"]

\* what a read_message_begin returned
ReturnedMessage(proto, r) ==
    [Returned(proto, "message_begin", r.kind, r.used, None)
        EXCEPT !.name = r.name, !.message_type = r.message_type,
               !.sequence_number = r.sequence_number, !.alloc = r.alloc]

NoMessage(kind, used, alloc) ==
    [kind |-> kind, used |-> used, alloc |-> alloc, name |-> None, message_type |-> "",
     sequence_number |-> 0]

\* ---- TBinaryOutputProtocol ----

\* BINARY_PROTOCOL_VERSION_1 | (message_type as u32), big-endian
bo_version_header(message_type) == <<128, 1, 0, message_type_to_u8(message_type)>>

\* write_bytes, write_string
bo_write_bytes(b) == write_i32(Len(b)) \o b

bo_non_strict_kind_last(identifier) ==
    bo_write_bytes(identifier.name) \o write_i32(identifier.sequence_number)
        \o <<message_type_to_u8(identifier.message_type)>>

\* the bytes write_message_begin writes in non-strict mode
bo_non_strict_message_begin(identifier) ==
    bo_write_bytes(identifier.name) \o <<message_type_to_u8(identifier.message_type)>>
        \o write_i32(identifier.sequence_number)

\* the bytes write_message_begin writes in strict mode
bo_strict_message_begin(identifier) ==
    bo_version_header(identifier.message_type) \o bo_write_bytes(identifier.name)
        \o write_i32(identifier.sequence_number)

bo_write_message_begin(identifier) ==
    LET bytes == IF bo_strict THEN bo_strict_message_begin(identifier)
                 ELSE bo_non_strict_message_begin(identifier)
    IN /\ bo_transport' = bo_transport \o bytes
       /\ written' = MessageCall(identifier, bytes)
       /\ result' = NoResult
       /\ UNCHANGED <<bo_strict, o_vars, i_vars, bi_vars, overflow_checks>>

\* ---- TBinaryInputProtocol ----

\* the fields after the version header: the name, then the sequence number
bi_versioned_message(message_type, buf, config) ==
    LET name == bi_string(buf, config)
        rest == SubSeqFrom(buf, name.used + 1)
    IN IF name.kind # "Ok" THEN NoMessage(name.kind, 4 + name.used, name.alloc)
       ELSE IF Len(rest) < 4 THEN NoMessage("Transport", 4 + Len(buf), name.alloc)
       ELSE [kind |-> "Ok", used |-> 8 + name.used, alloc |-> name.alloc,
             name |-> Some(name.bytes), message_type |-> message_type,
             sequence_number |-> read_i32(rest)]

\* the non-strict branch: the four bytes read are the length of the name, which
\* sizes the buffer of the name as it is
bi_unversioned_message(name_size, buf) ==
    IF name_size > Len(buf) THEN NoMessage("Transport", 4 + Len(buf), name_size)
    ELSE LET name_buf == SubSeq(buf, 1, name_size)
             rest == SubSeqFrom(buf, name_size + 1)
             message_type == message_type_from_u8(rest[1])
         IN IF ~from_utf8(name_buf) THEN NoMessage("InvalidData", 4 + name_size, name_size)
            ELSE IF rest = <<>> THEN NoMessage("Transport", 4 + name_size, name_size)
            ELSE IF ~is_ok(message_type)
            THEN NoMessage(message_type.kind, 5 + name_size, name_size)
            ELSE IF Len(rest) < 5 THEN NoMessage("Transport", 4 + Len(buf), name_size)
            ELSE [kind |-> "Ok", used |-> 9 + name_size, alloc |-> name_size,
                  name |-> Some(name_buf), message_type |-> message_type.v,
                  sequence_number |-> read_i32(Tail(rest))]

bi_version_unchecked(first_bytes) == TRUE

\* first_bytes[0..2] == [0x80, 0x01]
bi_version_matches(first_bytes) == first_bytes[1] = 128 /\ first_bytes[2] = 1

bi_message(buf, strict, config) ==
    IF Len(buf) < 4 THEN NoMessage("Transport", Len(buf), 0)
    ELSE LET first_bytes == SubSeq(buf, 1, 4)
             rest == SubSeqFrom(buf, 5)
             message_type == message_type_from_u8(first_bytes[4])
         IN IF first_bytes[1] >= 128
            THEN IF ~bi_version_matches(first_bytes) THEN NoMessage("BadVersion", 4, 0)
                 ELSE IF ~is_ok(message_type) THEN NoMessage(message_type.kind, 4, 0)
                 ELSE bi_versioned_message(message_type.v, rest, config)
            ELSE IF strict THEN NoMessage("BadVersion", 4, 0)
                 ELSE bi_unversioned_message(read_i32(first_bytes), rest)

bi_read_message_begin ==
    /\ ~bi_panicked
    /\ LET r == bi_message(bi_transport, bi_strict, bi_config)
       IN /\ result' = ReturnedMessage("binary", r)
          /\ bi_transport' = SubSeqFrom(bi_transport, r.used + 1)
    /\ UNCHANGED <<bi_recursion_depth, bi_panicked>>
    /\ bi_frame

\* ---- TCompactOutputProtocol ----

COMPACT_PROTOCOL_ID == 130
COMPACT_VERSION == 1
COMPACT_VERSION_MASK == 31

\* write_bytes, write_string
o_write_bytes(b) == encode_var_u32(Len(b)) \o b

o_sequence_number_zigzag(sequence_number) ==
    IF sequence_number \in -1000..1000 THEN encode_var(zigzag_encode(sequence_number))
    ELSE encode_var_u32(sequence_number)

\* write_varint(identifier.sequence_number as u32)
o_sequence_number(sequence_number) == encode_var_u32(sequence_number)

\* the bytes write_message_begin writes
o_message_begin(identifier) ==
    <<COMPACT_PROTOCOL_ID,
      ((message_type_to_u8(identifier.message_type) * 32) % 256) + COMPACT_VERSION>>
        \o o_sequence_number(identifier.sequence_number)
        \o o_write_bytes(identifier.name)

o_write_message_begin(identifier) ==
    LET bytes == o_message_begin(identifier)
    IN /\ o_transport' = o_transport \o bytes
       /\ written' = MessageCall(identifier, bytes)
       /\ result' = NoResult
       /\ UNCHANGED <<last_write_field_id, write_field_id_stack,
                      pending_write_bool_field_identifier, o_panicked,
                      bo_vars, i_vars, bi_vars, overflow_checks>>

\* ---- TCompactInputProtocol ----

i_version_low_nibble(type_and_byte) == type_and_byte % 16

\* type_and_byte & COMPACT_VERSION_MASK
i_received_version(type_and_byte) == type_and_byte % (COMPACT_VERSION_MASK + 1)

i_message(buf, config) ==
    IF buf = <<>> THEN NoMessage("Transport", 0, 0)
    ELSE IF buf[1] # COMPACT_PROTOCOL_ID THEN NoMessage("BadVersion", 1, 0)
    ELSE IF Len(buf) < 2 THEN NoMessage("Transport", 1, 0)
    ELSE LET type_and_byte == buf[2]
             message_type == message_type_from_u8(type_and_byte \div 32)
             v == read_varint_u32(SubSeqFrom(buf, 3))
             name == i_string(SubSeqFrom(buf, 3 + v.used), config)
         IN IF i_received_version(type_and_byte) # COMPACT_VERSION
            THEN NoMessage("BadVersion", 2, 0)
            ELSE IF ~is_ok(message_type) THEN NoMessage(message_type.kind, 2, 0)
            ELSE IF v.err THEN NoMessage("Transport", 2 + v.used, 0)
            ELSE IF name.kind # "Ok"
            THEN NoMessage(name.kind, 2 + v.used + name.used, name.alloc)
            ELSE [kind |-> "Ok", used |-> 2 + v.used + name.used, alloc |-> name.alloc,
                  name |-> Some(name.bytes), message_type |-> message_type.v,
                  sequence_number |-> v.value]

i_read_message_begin ==
    /\ ~i_panicked
    /\ LET r == i_message(i_transport, i_config)
       IN /\ result' = ReturnedMessage("compact", r)
          /\ i_transport' = SubSeqFrom(i_transport, r.used + 1)
          /\ last_read_field_id' = IF r.kind = "Ok" THEN 0 ELSE last_read_field_id
    /\ UNCHANGED <<read_field_id_stack, pending_read_bool_value, i_recursion_depth,
                   i_panicked>>
    /\ i_frame

-----------------------------------------------------------------------------
(* Fields, bools and the calls without framing of the binary codec *)

field_type_to_u8(field_type) ==
    CASE field_type = "Stop" -> 0
      [] field_type = "Void" -> 1
      [] field_type = "Bool" -> 2
      [] field_type = "I08" -> 3
      [] field_type = "Double" -> 4
      [] field_type = "I16" -> 6
      [] field_type = "I32" -> 8
      [] field_type = "I64" -> 10
      [] field_type \in {"String", "Utf7"} -> 11
      [] field_type = "Struct" -> 12
      [] field_type = "Map" -> 13
      [] field_type = "Set" -> 14
      [] field_type = "List" -> 15
      [] field_type = "Uuid" -> 16

bo_write_i16_little_endian(i) == <<i % 256, (i % 65536) \div 256>>

\* write_i16::<BigEndian>
bo_write_i16(i) == <<(i % 65536) \div 256, i % 256>>

\* read_i16::<BigEndian> of the first two bytes of buf
bi_read_i16(buf) ==
    LET u == (buf[1] * 256) + buf[2]
    IN IF u >= 32768 THEN u - 65536 ELSE u

\* the record of a call of the binary encoder that returned kind
BinaryCall(op, identifier, b, bytes, kind) ==
    [NoCall EXCEPT !.op = op, !.identifier = identifier, !.b = b, !.bytes = bytes,
                   !.kind = kind]

\* a call of the binary encoder: the bytes it puts on the transport and what it returns
bo_call(op, identifier, b, bytes, kind) ==
    /\ bo_transport' = bo_transport \o bytes
    /\ written' = BinaryCall(op, identifier, b, bytes, kind)
    /\ result' = NoResult
    /\ UNCHANGED <<bo_strict, o_vars, i_vars, bi_vars, overflow_checks>>

bo_field_id_unchecked(identifier) == FALSE

\* identifier.id.is_none() && identifier.field_type != TType::Stop
bo_field_id_missing(identifier) ==
    identifier.id = None /\ identifier.field_type # "Stop"

bo_write_field_begin(identifier) ==
    IF bo_field_id_missing(identifier)
    THEN bo_call("field_begin", identifier, FALSE, <<>>, "Unknown")
    ELSE bo_call("field_begin", identifier, FALSE,
                 <<field_type_to_u8(identifier.field_type)>>
                     \o (IF is_some(identifier.id) THEN bo_write_i16(unwrap(identifier.id))
                         ELSE <<>>),
                 "Ok")

bo_write_field_stop ==
    bo_call("field_stop", NoIdentifier, FALSE, <<field_type_to_u8("Stop")>>, "Ok")

\* the byte write_bool writes
bo_bool(b) == IF b THEN 1 ELSE 0

bo_write_bool(b) == bo_call("bool", NoIdentifier, b, <<bo_bool(b)>>, "Ok")

\* write_message_end, write_struct_begin, write_struct_end, write_field_end,
\* write_list_end, write_set_end, write_map_end: Ok(())
bo_write_nothing(op) == bo_call(op, NoIdentifier, FALSE, <<>>, "Ok")

bi_read_field_begin ==
    /\ ~bi_panicked
    /\ IF bi_transport = <<>>
       THEN /\ result' = Returned("binary", "field_begin", "Transport", 0, None)
            /\ UNCHANGED bi_transport
       ELSE LET field_type == field_type_from_u8(bi_transport[1])
                rest == Tail(bi_transport)
            IN IF ~is_ok(field_type)
               THEN /\ result' = Returned("binary", "field_begin", field_type.kind, 1, None)
                    /\ bi_transport' = rest
               ELSE IF field_type.v = "Stop"
               THEN /\ result' = [Returned("binary", "field_begin", "Ok", 1, None)
                                     EXCEPT !.field_type = "Stop", !.id = Some(0)]
                    /\ bi_transport' = rest
               ELSE IF Len(rest) < 2
               THEN /\ result' = Returned("binary", "field_begin", "Transport",
                                          Len(bi_transport), None)
                    /\ bi_transport' = <<>>
               ELSE /\ result' = [Returned("binary", "field_begin", "Ok", 3, None)
                                     EXCEPT !.field_type = field_type.v,
                                            !.id = Some(bi_read_i16(rest))]
                    /\ bi_transport' = SubSeqFrom(rest, 3)
    /\ UNCHANGED <<bi_recursion_depth, bi_panicked>>
    /\ bi_frame

bi_bool_of_one(b) == b = 1

\* the bool read_bool makes of the byte read
bi_bool(b) == b # 0

bi_read_bool ==
    /\ ~bi_panicked
    /\ IF bi_transport = <<>>
       THEN /\ result' = Returned("binary", "bool", "Transport", 0, None)
            /\ UNCHANGED bi_transport
       ELSE /\ result' = [Returned("binary", "bool", "Ok", 1, None)
                             EXCEPT !.b = bi_bool(bi_transport[1])]
            /\ bi_transport' = Tail(bi_transport)
    /\ UNCHANGED <<bi_recursion_depth, bi_panicked>>
    /\ bi_frame

bi_read_nothing_skipping(op) ==
    /\ ~bi_panicked
    /\ result' = Returned("binary", op, "Ok", 0, None)
    /\ bi_transport' = IF bi_transport = <<>> THEN <<>> ELSE Tail(bi_transport)
    /\ UNCHANGED <<bi_recursion_depth, bi_panicked>>
    /\ bi_frame

\* read_message_end, read_field_end, read_list_end, read_set_end, read_map_end: Ok(())
bi_read_nothing(op) ==
    /\ ~bi_panicked
    /\ result' = Returned("binary", op, "Ok", 0, None)
    /\ UNCHANGED <<bi_transport, bi_recursion_depth, bi_panicked>>
    /\ bi_frame

-----------------------------------------------------------------------------
(* Collection headers of TCompactOutputProtocol *)

\* a TMapIdentifier; key_type and value_type are Options
TMapIdentifier(key_type, value_type, size) ==
    [key_type |-> key_type, value_type |-> value_type, size |-> size]

\* the types collection_type_to_u8 has an arm for; every other type panics
has_collection_u8(field_type) == field_type = "Bool" \/ has_compact_u8(field_type)

\* the record of a write of a collection header
CollectionCall(op, bytes, panic) ==
    [NoCall EXCEPT !.op = op, !.bytes = bytes, !.panicked = panic,
                   !.kind = IF panic THEN "" ELSE "Ok"]

o_short_count_15(element_count) == element_count <= 15

\* element_count <= 14: the count goes in the high nibble of the header
o_short_count(element_count) == element_count <= 14

\* the bytes write_list_set_begin writes
o_list_set_begin(element_type, element_count) ==
    LET elem_identifier == collection_type_to_u8(element_type)
    IN IF o_short_count(element_count)
       THEN <<(((element_count % 256) * 16) % 256) + elem_identifier>>
       ELSE <<240 + elem_identifier>> \o encode_var_u32(element_count)

\* write_list_begin, write_set_begin
o_write_list_set_begin(op, element_type, element_count) ==
    /\ ~o_panicked
    /\ LET panic == ~has_collection_u8(element_type)
           bytes == IF panic THEN <<>> ELSE o_list_set_begin(element_type, element_count)
       IN /\ o_transport' = o_transport \o bytes
          /\ o_panicked' = panic
          /\ written' = CollectionCall(op, bytes, panic)
    /\ result' = NoResult
    /\ UNCHANGED <<last_write_field_id, write_field_id_stack,
                   pending_write_bool_field_identifier, bo_vars, i_vars, bi_vars,
                   overflow_checks>>

\* the types byte of a map header
o_map_type_header(key_type, val_type) ==
    ((collection_type_to_u8(key_type) * 16) % 256) + collection_type_to_u8(val_type)

\* write_map_begin: the size is on the transport before the types are looked at
o_write_map_begin(identifier) ==
    /\ ~o_panicked
    /\ LET size == IF identifier.size = 0 THEN <<0>> ELSE encode_var_u32(identifier.size)
           panic == /\ identifier.size # 0
                    /\ \/ ~is_some(identifier.key_type)
                       \/ ~has_collection_u8(unwrap(identifier.key_type))
                       \/ ~is_some(identifier.value_type)
                       \/ ~has_collection_u8(unwrap(identifier.value_type))
           bytes == IF identifier.size = 0 \/ panic THEN size
                    ELSE Append(size, o_map_type_header(unwrap(identifier.key_type),
                                                        unwrap(identifier.value_type)))
       IN /\ o_transport' = o_transport \o bytes
          /\ o_panicked' = panic
          /\ written' = CollectionCall("map_begin", bytes, panic)
    /\ result' = NoResult
    /\ UNCHANGED <<last_write_field_id, write_field_id_stack,
                   pending_write_bool_field_identifier, bo_vars, i_vars, bi_vars,
                   overflow_checks>>

-----------------------------------------------------------------------------
(* Encoder and decoder over one channel: every call of the encoder is        *)
(* mirrored by the matching call of the decoder on the bytes written.        *)

NoInput == [proto |-> "", kind |-> "", tags |-> <<>>, size |-> 0, payload |-> <<>>]

\* the next call to mirror is one of kinds and the bytes it reads are readable
MirrorHead(kinds) ==
    /\ wellformed
    /\ ops # <<>>
    /\ Head(ops).op \in kinds
    /\ o_transport = <<>>
    /\ Head(ops).op = "field_begin" /\ Head(ops).field_type = "Bool" => Len(ops) > 1

\* the mirrored read of the call at the head of ops
Mirror(kinds) ==
    /\ MirrorHead(kinds)
    /\ ops' = Tail(ops)
    /\ nesting' = Nested(nesting, "r", Head(ops).op, Head(ops).id, FALSE)
    /\ UNCHANGED wellformed

read_struct_begin == Mirror({"struct_begin"}) /\ i_read_struct_begin(Some(Head(ops)))

read_struct_end == Mirror({"struct_end"}) /\ i_read_struct_end(Some(Head(ops)))

read_field_begin ==
    Mirror({"field_begin", "field_stop"}) /\ i_read_field_begin(Some(Head(ops)))

read_field_end == Mirror({"field_end"}) /\ i_read_field_end(Some(Head(ops)))

read_bool == Mirror({"bool"}) /\ i_read_bool(Some(Head(ops)))

read_message_end == Mirror({"message_end"}) /\ i_read_message_end(Some(Head(ops)))

InitEncoder ==
    /\ last_write_field_id = 0
    /\ write_field_id_stack = <<>>
    /\ pending_write_bool_field_identifier = None
    /\ o_transport = <<>>
    /\ o_panicked = FALSE

InitBinaryEncoder(strict) ==
    /\ bo_strict = strict
    /\ bo_transport = <<>>

InitCompactDecoder(config, transport) ==
    /\ last_read_field_id = 0
    /\ read_field_id_stack = <<>>
    /\ pending_read_bool_value = None
    /\ i_transport = transport
    /\ i_config = config
    /\ i_recursion_depth = 0
    /\ i_panicked = FALSE

InitBinaryDecoder(strict, config, transport) ==
    /\ bi_strict = strict
    /\ bi_transport = transport
    /\ bi_config = config
    /\ bi_recursion_depth = 0
    /\ bi_panicked = FALSE

InitHistory ==
    /\ ops = <<>>
    /\ wellformed = TRUE
    /\ written = NoCall
    /\ result = NoResult
    /\ nesting = NoNesting

Init ==
    /\ InitEncoder
    /\ InitBinaryEncoder(TRUE)
    /\ InitCompactDecoder(no_limits, <<>>)
    /\ InitBinaryDecoder(TRUE, no_limits, <<>>)
    /\ overflow_checks \in BOOLEAN
    /\ InitHistory
    /\ input = NoInput

Next ==
    \/ write_struct_begin
    \/ write_struct_end
    \/ write_field_begin
    \/ write_field_end
    \/ write_field_stop
    \/ write_bool
    \/ write_message_end
    \/ copy_write_buffer_to_read_buffer
    \/ read_struct_begin
    \/ read_struct_end
    \/ read_field_begin
    \/ read_field_end
    \/ read_bool
    \/ read_message_end

Spec == Init /\ [][Next]_vars

-----------------------------------------------------------------------------
(* A decoder reading what a peer has put on the wire: a list or set header, a  *)
(* map header or a length-prefixed byte string, with any type tags and any     *)
(* declared size, under any configuration of limits.                            *)

BinaryTags == {2, 10, 16, 5}       \* Bool, I64, Uuid and a tag of no type
CompactTags == {1, 2, 6, 13, 14}   \* Bool (twice), I64, Uuid and a nibble of no type
Sizes == {I32_MIN, -1, 0, 1, 2, 3, 15, 20, 21, I32_MAX}
PayloadBytes == {97, 255}

RECURSIVE SeqsUpTo(_, _)
SeqsUpTo(S, n) ==
    IF n = 0 THEN {<<>>}
    ELSE SeqsUpTo(S, n - 1) \cup {Append(q, x) : q \in {r \in SeqsUpTo(S, n - 1) : Len(r) = n - 1}, x \in S}

TagsOf(proto) == IF proto = "binary" THEN BinaryTags ELSE CompactTags

Inputs ==
    UNION {
        {[proto |-> p, kind |-> "list", tags |-> <<t>>, size |-> n, payload |-> <<>>] :
            t \in TagsOf(p), n \in Sizes}
        \cup
        {[proto |-> p, kind |-> "map", tags |-> <<k, v>>, size |-> n, payload |-> <<>>] :
            k \in TagsOf(p) \ {1}, v \in TagsOf(p) \ {10, 6}, n \in Sizes}
        \cup
        {[proto |-> p, kind |-> "bytes", tags |-> <<>>, size |-> n, payload |-> q] :
            n \in Sizes, q \in SeqsUpTo(PayloadBytes, MaxPayload)}
        : p \in {"binary", "compact"}}

\* the bytes of an input
Wire(in) ==
    IF in.proto = "binary"
    THEN in.tags \o write_i32(in.size) \o in.payload
    ELSE CASE in.kind = "list" ->
                IF in.size \in 0..14 THEN <<(16 * in.size) + in.tags[1]>>
                ELSE <<240 + in.tags[1]>> \o encode_var_u32(in.size)
           [] in.kind = "map" ->
                IF in.size = 0 THEN <<0>>
                ELSE encode_var_u32(in.size) \o <<(16 * in.tags[1]) + in.tags[2]>>
           [] OTHER -> encode_var_u32(in.size) \o in.payload

Configs ==
    {no_limits,
     TConfiguration(None, Some(2), None, None),
     TConfiguration(Some(32), None, None, None),
     TConfiguration(Some(32), Some(20), Some(1), Some(1)),
     TConfiguration(None, None, Some(2), Some(MaxDepth))}

InitDecode ==
    /\ InitEncoder
    /\ InitBinaryEncoder(TRUE)
    /\ input \in Inputs
    /\ \E config \in Configs :
          /\ InitCompactDecoder(config, IF input.proto = "compact" THEN Wire(input) ELSE <<>>)
          /\ \E strict \in {TRUE} :
                InitBinaryDecoder(strict, config,
                                  IF input.proto = "binary" THEN Wire(input) ELSE <<>>)
    /\ overflow_checks \in BOOLEAN
    /\ InitHistory

\* the caller's count of the structs it has open, and whether every
\* read_struct_end it issued had a read_struct_begin to match; a caller ends
\* at most one struct it never began
Structs(op) ==
    /\ nesting' = IF result'.kind = "Ok" THEN Nested(nesting, "r", op, None, FALSE)
                  ELSE nesting
    /\ wellformed' = (wellformed /\ ~(op = "struct_end" /\ nesting.r.open = <<>>))
    /\ UNCHANGED ops

NoStructs == UNCHANGED <<nesting, wellformed, ops>>

compact_read_struct_begin ==
    /\ input.proto = "compact"
    /\ Len(nesting.r.open) <= MaxDepth
    /\ i_read_struct_begin(None)
    /\ Structs("struct_begin")

compact_read_struct_end ==
    /\ input.proto = "compact"
    /\ wellformed
    /\ i_read_struct_end(None)
    /\ Structs("struct_end")

compact_read_list_begin ==
    input.proto = "compact" /\ i_read_list_set_begin("list_begin") /\ NoStructs

compact_read_set_begin ==
    input.proto = "compact" /\ i_read_list_set_begin("set_begin") /\ NoStructs

compact_read_map_begin == input.proto = "compact" /\ i_read_map_begin /\ NoStructs

compact_read_bytes == input.proto = "compact" /\ i_read_bytes("bytes") /\ NoStructs

compact_read_string == input.proto = "compact" /\ i_read_bytes("string") /\ NoStructs

binary_read_struct_begin ==
    /\ input.proto = "binary"
    /\ Len(nesting.r.open) <= MaxDepth
    /\ bi_read_struct_begin
    /\ Structs("struct_begin")

binary_read_struct_end ==
    /\ input.proto = "binary"
    /\ wellformed
    /\ bi_read_struct_end
    /\ Structs("struct_end")

binary_read_list_begin ==
    input.proto = "binary" /\ bi_read_list_begin("list_begin") /\ NoStructs

binary_read_set_begin ==
    input.proto = "binary" /\ bi_read_list_begin("set_begin") /\ NoStructs

binary_read_map_begin == input.proto = "binary" /\ bi_read_map_begin /\ NoStructs

binary_read_bytes == input.proto = "binary" /\ bi_read_bytes("bytes") /\ NoStructs

binary_read_string == input.proto = "binary" /\ bi_read_bytes("string") /\ NoStructs

NextDecode ==
    \/ compact_read_struct_begin
    \/ compact_read_struct_end
    \/ compact_read_list_begin
    \/ compact_read_set_begin
    \/ compact_read_map_begin
    \/ compact_read_bytes
    \/ compact_read_string
    \/ binary_read_struct_begin
    \/ binary_read_struct_end
    \/ binary_read_list_begin
    \/ binary_read_set_begin
    \/ binary_read_map_begin
    \/ binary_read_bytes
    \/ binary_read_string

SpecDecode == InitDecode /\ [][NextDecode]_vars

-----------------------------------------------------------------------------
(* Message envelopes: a message written by an encoder of either codec, or put *)
(* on the wire by a peer, and read by a decoder of the same codec.            *)

Sequences == {I32_MIN, -1, 0, 1, I32_MAX}

\* the names an encoder is given are strings
MessageNames == {q \in SeqsUpTo(PayloadBytes, MaxPayload) : from_utf8(q)}

MessageIdentifiers ==
    {TMessageIdentifier(n, t, i) : n \in MessageNames, t \in TMessageType, i \in Sequences}

\* what an encoder has written
WrittenMessage(proto, strict, identifier) ==
    [proto |-> proto, kind |-> "message", by |-> "encoder", strict |-> strict,
     identifier |-> identifier]

\* what a peer sends to a binary decoder: a header of four bytes with the high
\* bit set, a length-prefixed name and a sequence number, or a length-prefixed
\* name, a kind byte and a sequence number
BinaryMessages ==
    {[proto |-> "binary", kind |-> "message", by |-> "peer", versioned |-> TRUE,
      head |-> <<v[1], v[2], third, k>>, size |-> n, payload |-> q,
      sequence_number |-> i] :
        v \in {<<128, 1>>, <<128, 2>>, <<129, 1>>, <<255, 255>>}, third \in {0, 255},
        k \in {1, 4, 0}, n \in {-1, 0, 1, 2, 3}, q \in SeqsUpTo(PayloadBytes, MaxPayload),
        i \in {-1, 1}}
    \cup
    {[proto |-> "binary", kind |-> "message", by |-> "peer", versioned |-> FALSE,
      head |-> <<k>>, size |-> n, payload |-> q, sequence_number |-> i] :
        k \in {1, 4, 0}, n \in {0, 1, 2, 3, I32_MAX},
        q \in SeqsUpTo(PayloadBytes, MaxPayload), i \in {-1, 1}}

\* what a peer sends to a compact decoder: the header of a field, then the
\* protocol id, the kind and version, the sequence number and the name
CompactMessages ==
    {[proto |-> "compact", kind |-> "message", by |-> "peer", field |-> f,
      head |-> <<id, tv>>, size |-> n, payload |-> q, sequence_number |-> i] :
        f \in {<<>>, <<17>>, <<53>>}, id \in {130, 128}, tv \in {33, 129, 34, 1, 49},
        n \in {0, 1, 2, 3}, q \in SeqsUpTo(PayloadBytes, MaxPayload), i \in {-1, 1}}

MessageWire(in) ==
    IF in.by # "peer" THEN <<>>
    ELSE IF in.proto = "compact"
    THEN in.field \o in.head \o encode_var_u32(in.sequence_number)
             \o encode_var_u32(in.size) \o in.payload
    ELSE IF in.versioned
    THEN in.head \o write_i32(in.size) \o in.payload \o write_i32(in.sequence_number)
    ELSE write_i32(in.size) \o in.payload \o in.head \o write_i32(in.sequence_number)

MessageConfigs == {no_limits, TConfiguration(None, None, Some(1), None)}

NothingSent == [NoInput EXCEPT !.kind = "message"] @@ [by |-> "nobody"]

InitMessage ==
    /\ InitEncoder
    /\ input \in {NothingSent} \cup BinaryMessages \cup CompactMessages
    /\ \E strict \in (IF input.by = "nobody" THEN BOOLEAN ELSE {TRUE}) :
           InitBinaryEncoder(strict)
    /\ \E config \in MessageConfigs :
          /\ InitCompactDecoder(config, IF input.proto = "compact"
                                        THEN MessageWire(input) ELSE <<>>)
          /\ \E strict \in (IF input.proto = "compact" THEN {TRUE} ELSE BOOLEAN) :
                InitBinaryDecoder(strict, config,
                                  IF input.proto = "binary" THEN MessageWire(input)
                                  ELSE <<>>)
    /\ overflow_checks \in BOOLEAN
    /\ InitHistory

binary_write_message_begin ==
    /\ input.by = "nobody"
    /\ \E identifier \in MessageIdentifiers :
          /\ bo_write_message_begin(identifier)
          /\ input' = WrittenMessage("binary", bo_strict, identifier)
    /\ NoStructs

\* copy_write_buffer_to_read_buffer! of the binary tests
binary_copy_write_buffer_to_read_buffer ==
    /\ bo_transport # <<>>
    /\ bi_transport' = bi_transport \o bo_transport
    /\ bo_transport' = <<>>
    /\ UNCHANGED <<bo_strict, bi_strict, bi_config, bi_recursion_depth, bi_panicked,
                   o_vars, i_vars, overflow_checks, ops, wellformed, written, result,
                   nesting, input>>

binary_read_message_begin ==
    /\ input.proto = "binary"
    /\ bo_transport = <<>>
    /\ bi_read_message_begin
    /\ NoStructs

compact_write_message_begin ==
    /\ input.by = "nobody"
    /\ \E identifier \in MessageIdentifiers :
          /\ o_write_message_begin(identifier)
          /\ input' = WrittenMessage("compact", FALSE, identifier)
    /\ NoStructs

\* the caller of the compact decoder gives up at the first error
Proceeding == result.kind \in {"", "Ok"} /\ o_transport = <<>>

compact_read_message_begin ==
    /\ input.proto = "compact"
    /\ Proceeding
    /\ i_read_message_begin
    /\ NoStructs

compact_read_field_begin ==
    input.proto = "compact" /\ Proceeding /\ i_read_field_begin(None) /\ NoStructs

compact_enter_struct == Proceeding /\ compact_read_struct_begin

NextMessage ==
    \/ binary_write_message_begin
    \/ binary_copy_write_buffer_to_read_buffer
    \/ binary_read_message_begin
    \/ compact_write_message_begin
    \/ copy_write_buffer_to_read_buffer
    \/ compact_read_message_begin
    \/ compact_read_field_begin
    \/ compact_enter_struct

SpecMessage == InitMessage /\ [][NextMessage]_vars

-----------------------------------------------------------------------------
(* Collection headers and bool values of the compact codec: written by the    *)
(* encoder, or put on the wire by a peer, and read by the decoder.            *)

MaxWire == 3    \* bytes a peer puts on the wire

\* bytes that are, read as a field header, a list or set header, a map header
\* or a bool: every bool byte and one that is none (0-3), a nibble of no type
\* (14), short-form field headers and one-element headers of Bool (17, 18,
\* 34), a varint continuation (128), a Bool list of 14 (225) and a Bool
\* header whose count follows (241)
WireBytes == {0, 1, 2, 3, 14, 17, 18, 34, 128, 225, 241}

ElementTypes == {"Bool", "I08", "Double", "String", "Struct", "Uuid", "Stop", "Void"}
ElementCounts == {0, 1, 14, 15, 16, 127, 128, I32_MAX}

MapIdentifiers ==
    {TMapIdentifier(Some(k), Some(v), n) :
        k \in {"Bool", "I32", "String"}, v \in {"Bool", "Double", "Void"},
        n \in {0, 1, 15, 238}}
    \cup {TMapIdentifier(None, None, 0), TMapIdentifier(None, None, 1)}

CollectionConfigs == {no_limits, TConfiguration(Some(32), Some(20), None, None)}

NothingWritten == [proto |-> "compact", kind |-> "values", by |-> "nobody", wire |-> <<>>]

PeerWires ==
    {[proto |-> "compact", kind |-> "values", by |-> "peer", wire |-> q] :
        q \in SeqsUpTo(WireBytes, MaxWire) \ {<<>>}}

\* what the encoder was asked to write, and the bytes it wrote
WrittenCollection(op, element_type, identifier, wire) ==
    [proto |-> "compact", kind |-> "values", by |-> "encoder", op |-> op,
     element_type |-> element_type, key_type |-> identifier.key_type,
     value_type |-> identifier.value_type, size |-> identifier.size, wire |-> wire]

InitCollection ==
    /\ InitEncoder
    /\ InitBinaryEncoder(TRUE)
    /\ input \in {NothingWritten} \cup PeerWires
    /\ \E config \in CollectionConfigs :
          /\ InitCompactDecoder(config, input.wire)
          /\ InitBinaryDecoder(TRUE, config, <<>>)
    /\ overflow_checks \in BOOLEAN
    /\ InitHistory

compact_write_list_begin ==
    /\ input.by = "nobody" /\ ops = <<>>
    /\ \E t \in ElementTypes, n \in ElementCounts :
          /\ o_write_list_set_begin("list_begin", t, n)
          /\ input' = WrittenCollection("list_begin", t, TMapIdentifier(None, None, n),
                                        written'.bytes)
    /\ NoStructs

compact_write_set_begin ==
    /\ input.by = "nobody" /\ ops = <<>>
    /\ \E t \in ElementTypes, n \in ElementCounts :
          /\ o_write_list_set_begin("set_begin", t, n)
          /\ input' = WrittenCollection("set_begin", t, TMapIdentifier(None, None, n),
                                        written'.bytes)
    /\ NoStructs

compact_write_map_begin ==
    /\ input.by = "nobody" /\ ops = <<>>
    /\ \E identifier \in MapIdentifiers :
          /\ o_write_map_begin(identifier)
          /\ input' = WrittenCollection("map_begin", "", identifier, written'.bytes)
    /\ NoStructs

\* write_bool outside a field
compact_write_bool == input.by = "nobody" /\ write_bool

read_list_begin ==
    input.proto = "compact" /\ Proceeding /\ i_read_list_set_begin("list_begin") /\ NoStructs

read_set_begin ==
    input.proto = "compact" /\ Proceeding /\ i_read_list_set_begin("set_begin") /\ NoStructs

read_map_begin == input.proto = "compact" /\ Proceeding /\ i_read_map_begin /\ NoStructs

compact_read_bool == input.proto = "compact" /\ Proceeding /\ i_read_bool(None) /\ NoStructs

compact_read_field_end ==
    input.proto = "compact" /\ Proceeding /\ i_read_field_end(None) /\ NoStructs

NextCollection ==
    \/ compact_write_list_begin
    \/ compact_write_set_begin
    \/ compact_write_map_begin
    \/ compact_write_bool
    \/ copy_write_buffer_to_read_buffer
    \/ read_list_begin
    \/ read_set_begin
    \/ read_map_begin
    \/ compact_read_field_begin
    \/ compact_read_field_end
    \/ compact_read_bool

SpecCollection == InitCollection /\ [][NextCollection]_vars

-----------------------------------------------------------------------------
(* Fields, bools and uuids: a session of one codec, in which the encoder      *)
(* writes one value and the decoder reads what was written, or reads what a   *)
(* peer has put on the wire.                                                  *)

\* bytes that are, read by the binary decoder, the tags of Stop (0), Bool (2)
\* and String (11), a tag of no type (5), the bytes of an id and a bool
BinaryWireBytes == {0, 2, 5, 11, 128, 255}

BinaryIdentifiers ==
    {TFieldIdentifier(None, t, i) :
        t \in TType, i \in {None} \cup {Some(x) : x \in {I16_MIN, -1, 0, 1, 256, I16_MAX}}}

\* the sixteen bytes of a uuid
Uuids == {[i \in 1..16 |-> 0], [i \in 1..16 |-> 16 + i], [i \in 1..16 |-> 255]}

\* TCompactOutputProtocol::write_uuid: write_bytes of the sixteen bytes
o_write_uuid(uuid) ==
    /\ ~o_panicked
    /\ o_transport' = o_transport \o o_write_bytes(uuid)
    /\ written' = [NoCall EXCEPT !.op = "uuid", !.bytes = o_write_bytes(uuid), !.kind = "Ok"]
    /\ result' = NoResult
    /\ UNCHANGED <<last_write_field_id, write_field_id_stack,
                   pending_write_bool_field_identifier, o_panicked, i_vars, bo_vars,
                   bi_vars, overflow_checks>>

\* TCompactInputProtocol::read_uuid: read_bytes, and Uuid::from_slice of the
\* bytes read, which takes sixteen bytes and nothing else
i_read_uuid ==
    /\ ~i_panicked
    /\ LET r == i_bytes(i_transport, i_config)
           kind == IF r.kind = "Ok" /\ Len(r.bytes) # 16 THEN "InvalidData" ELSE r.kind
       IN /\ result' = [Returned("compact", "uuid", kind, r.used, None)
                           EXCEPT !.bytes = IF kind = "Ok" THEN r.bytes ELSE <<>>,
                                  !.alloc = r.alloc]
          /\ i_transport' = SubSeqFrom(i_transport, r.used + 1)
    /\ UNCHANGED <<last_read_field_id, read_field_id_stack, pending_read_bool_value,
                   i_recursion_depth, i_panicked>>
    /\ i_frame

Session(proto, by, wire) == [proto |-> proto, kind |-> "frames", by |-> by, wire |-> wire]

\* a peer of the compact decoder sends a uuid as its sixteen bytes, or with
\* their count before them
Sessions ==
    {Session("binary", "nobody", <<>>), Session("compact", "nobody", <<>>)}
    \cup {Session("binary", "peer", q) : q \in SeqsUpTo(BinaryWireBytes, MaxWire) \ {<<>>}}
    \cup {Session("compact", "peer", uuid) : uuid \in Uuids}
    \cup {Session("compact", "peer", <<16>> \o uuid) : uuid \in Uuids}

\* what the encoder was asked to write, and the bytes it wrote
WrittenFrame(proto, call) ==
    Session(proto, "encoder", call.bytes) @@ [op |-> call.op, identifier |-> call.identifier,
                                             b |-> call.b, returned |-> call.kind]

InitFrames ==
    /\ InitEncoder
    /\ InitBinaryEncoder(TRUE)
    /\ input \in Sessions
    /\ InitCompactDecoder(no_limits, IF input.proto = "compact" THEN input.wire ELSE <<>>)
    /\ InitBinaryDecoder(TRUE, no_limits, IF input.proto = "binary" THEN input.wire ELSE <<>>)
    /\ overflow_checks \in BOOLEAN
    /\ InitHistory

binary_write_field_begin ==
    /\ input.proto = "binary" /\ input.by = "nobody"
    /\ \E identifier \in BinaryIdentifiers : bo_write_field_begin(identifier)
    /\ input' = WrittenFrame("binary", written')
    /\ NoStructs

binary_write_field_stop ==
    /\ input.proto = "binary" /\ input.by = "nobody"
    /\ bo_write_field_stop
    /\ input' = WrittenFrame("binary", written')
    /\ NoStructs

binary_write_bool ==
    /\ input.proto = "binary" /\ input.by = "nobody"
    /\ \E b \in BOOLEAN : bo_write_bool(b)
    /\ input' = WrittenFrame("binary", written')
    /\ NoStructs

compact_write_uuid ==
    /\ input.proto = "compact" /\ input.by = "nobody"
    /\ \E uuid \in Uuids :
          /\ o_write_uuid(uuid)
          /\ input' = WrittenFrame("compact", written') @@ [uuid |-> uuid]
    /\ NoStructs

compact_read_uuid == input.proto = "compact" /\ Proceeding /\ i_read_uuid /\ NoStructs

\* the caller of the binary decoder gives up at the first error
BinaryProceeding == result.kind \in {"", "Ok"} /\ bo_transport = <<>>

binary_read_field_begin ==
    input.proto = "binary" /\ BinaryProceeding /\ bi_read_field_begin /\ NoStructs

binary_read_bool ==
    input.proto = "binary" /\ BinaryProceeding /\ bi_read_bool /\ NoStructs

NextFrames ==
    \/ binary_write_field_begin
    \/ binary_write_field_stop
    \/ binary_write_bool
    \/ binary_copy_write_buffer_to_read_buffer
    \/ binary_read_field_begin
    \/ binary_read_bool
    \/ compact_write_uuid
    \/ copy_write_buffer_to_read_buffer
    \/ compact_read_uuid

SpecFrames == InitFrames /\ [][NextFrames]_vars

-----------------------------------------------------------------------------
(* Structs and the calls without framing, of both codecs. A session of the   *)
(* compact codec is the encoder's calls, each mirrored by the decoder, or the *)
(* decoder alone over a peer's bytes; a session of the binary codec is calls  *)
(* of its encoder and decoder in any order.                                   *)

\* the calls of the binary codec that are Ok(()) and nothing else
WriteNothing ==
    {"message_end", "struct_begin", "struct_end", "field_end", "list_end", "set_end",
     "map_end"}
ReadNothing == {"message_end", "field_end", "list_end", "set_end", "map_end"}
CollectionEnds == {"list_end", "set_end", "map_end"}

\* TCompactOutputProtocol::write_list_end, write_set_end, write_map_end: Ok(())
write_collection_end ==
    /\ EncoderMayRun
    /\ UNCHANGED <<last_write_field_id, write_field_id_stack,
                   pending_write_bool_field_identifier>>
    /\ \E op \in CollectionEnds : Call(op, NoIdentifier, FALSE, <<>>, FALSE)

\* TCompactInputProtocol::read_list_end, read_set_end, read_map_end: Ok(())
i_read_collection_end(op, expect) ==
    /\ ~i_panicked
    /\ result' = Returned("compact", op, "Ok", 0, expect)
    /\ UNCHANGED <<last_read_field_id, read_field_id_stack, pending_read_bool_value,
                   i_transport, i_recursion_depth, i_panicked>>
    /\ i_frame

read_collection_end ==
    \E op \in CollectionEnds : Mirror({op}) /\ i_read_collection_end(op, Some(Head(ops)))

NestingWires == {<<0>>, <<21, 2>>, <<12, 0, 1>>}

NestingConfigs == {no_limits, TConfiguration(None, None, None, Some(1))}

NestingSessions ==
    {Session(proto, "nobody", <<>>) : proto \in {"binary", "compact"}}
    \cup {Session(proto, "peer", q) : proto \in {"binary", "compact"}, q \in NestingWires}

InitNesting ==
    /\ InitEncoder
    /\ InitBinaryEncoder(TRUE)
    /\ input \in NestingSessions
    /\ \E config \in IF input.by = "peer" THEN NestingConfigs ELSE {no_limits} :
          /\ InitCompactDecoder(config, IF input.proto = "compact" THEN input.wire ELSE <<>>)
          /\ InitBinaryDecoder(TRUE, config,
                               IF input.proto = "binary" THEN input.wire ELSE <<>>)
    /\ overflow_checks \in BOOLEAN
    /\ InitHistory

\* the session in which the compact decoder mirrors the compact encoder
Lockstep == input.proto = "compact" /\ input.by = "nobody"

session_write_struct_begin == Lockstep /\ write_struct_begin

session_write_struct_end == Lockstep /\ write_struct_end

session_write_field_begin == Lockstep /\ write_field_begin

session_write_field_end == Lockstep /\ write_field_end

session_write_field_stop == Lockstep /\ write_field_stop

session_write_bool == Lockstep /\ write_bool

session_write_message_end == Lockstep /\ write_message_end

session_write_collection_end == Lockstep /\ write_collection_end

session_copy_write_buffer_to_read_buffer == Lockstep /\ copy_write_buffer_to_read_buffer

session_read_struct_begin == Lockstep /\ read_struct_begin

session_read_struct_end == Lockstep /\ read_struct_end

session_read_field_begin == Lockstep /\ read_field_begin

session_read_field_end == Lockstep /\ read_field_end

session_read_bool == Lockstep /\ read_bool

session_read_message_end == Lockstep /\ read_message_end

session_read_collection_end == Lockstep /\ read_collection_end

\* the compact decoder alone: structs begun and ended, one of them perhaps
\* never begun, and the calls that read nothing
peer_read_struct_begin == input.by = "peer" /\ compact_read_struct_begin

peer_read_struct_end == input.by = "peer" /\ compact_read_struct_end

peer_read_field_begin == input.by = "peer" /\ compact_read_field_begin

peer_read_nothing ==
    /\ input.proto = "compact" /\ input.by = "peer"
    /\ \E op \in {"message_end", "field_end"} :
          IF op = "message_end" THEN i_read_message_end(None) ELSE i_read_field_end(None)
    /\ NoStructs

peer_read_collection_end ==
    /\ input.proto = "compact" /\ input.by = "peer"
    /\ \E op \in CollectionEnds : i_read_collection_end(op, None)
    /\ NoStructs

binary_write_nothing ==
    /\ input.proto = "binary" /\ input.by = "nobody"
    /\ \E op \in WriteNothing : bo_write_nothing(op)
    /\ UNCHANGED input
    /\ NoStructs

binary_read_nothing ==
    /\ input.proto = "binary"
    /\ \E op \in ReadNothing : bi_read_nothing(op)
    /\ NoStructs

NextNesting ==
    \/ session_write_struct_begin
    \/ session_write_struct_end
    \/ session_write_field_begin
    \/ session_write_field_end
    \/ session_write_field_stop
    \/ session_write_bool
    \/ session_write_message_end
    \/ session_write_collection_end
    \/ session_copy_write_buffer_to_read_buffer
    \/ session_read_struct_begin
    \/ session_read_struct_end
    \/ session_read_field_begin
    \/ session_read_field_end
    \/ session_read_bool
    \/ session_read_message_end
    \/ session_read_collection_end
    \/ peer_read_struct_begin
    \/ peer_read_struct_end
    \/ peer_read_field_begin
    \/ peer_read_nothing
    \/ peer_read_collection_end
    \/ binary_write_nothing
    \/ binary_read_nothing
    \/ binary_read_struct_begin
    \/ binary_read_struct_end
    \/ binary_read_field_begin

SpecNesting == InitNesting /\ [][NextNesting]_vars

-----------------------------------------------------------------------------
(* The tables of type tags: a type is converted to its tag and the tag back,  *)
(* or a byte is converted to the type it is the tag of.                       *)

Bytes == 0..255

\* the type given, if one is, and the byte to convert once there is one
TagInputs ==
    {[proto |-> proto, kind |-> "tags", field_type |-> Some(t), tag |-> None] :
        proto \in {"binary", "compact"}, t \in TType}
    \cup {[proto |-> proto, kind |-> "tags", field_type |-> None, tag |-> Some(b)] :
            proto \in {"binary", "compact"}, b \in Bytes}

InitTags ==
    /\ InitEncoder
    /\ InitBinaryEncoder(TRUE)
    /\ InitCompactDecoder(no_limits, <<>>)
    /\ InitBinaryDecoder(TRUE, no_limits, <<>>)
    /\ overflow_checks = TRUE
    /\ InitHistory
    /\ input \in TagInputs

Converted(proto, op, r) ==
    /\ result' = [Returned(proto, op, r.kind, 0, None)
                     EXCEPT !.field_type = IF is_ok(r) THEN r.v ELSE ""]
    /\ UNCHANGED <<o_vars, i_vars, bo_vars, bi_vars, overflow_checks, ops, wellformed,
                   written, nesting, input>>

TagWritten(tag, panic) ==
    /\ input' = [input EXCEPT !.tag = tag]
    /\ result' = [NoResult EXCEPT !.panicked = panic]
    /\ UNCHANGED <<o_vars, i_vars, bo_vars, bi_vars, overflow_checks, ops, wellformed,
                   written, nesting>>

binary_field_type_to_u8 ==
    /\ input.proto = "binary" /\ input.tag = None /\ ~result.panicked
    /\ TagWritten(Some(field_type_to_u8(unwrap(input.field_type))), FALSE)

binary_field_type_from_u8 ==
    /\ input.proto = "binary" /\ input.tag # None /\ result = NoResult
    /\ Converted("binary", "field_type_from_u8", field_type_from_u8(unwrap(input.tag)))

\* type_to_u8 panics on a type that has no nibble
compact_type_to_u8 ==
    /\ input.proto = "compact" /\ input.tag = None /\ ~result.panicked
    /\ IF has_compact_u8(unwrap(input.field_type))
       THEN TagWritten(Some(type_to_u8(unwrap(input.field_type))), FALSE)
       ELSE TagWritten(None, TRUE)

compact_u8_to_type ==
    /\ input.proto = "compact" /\ input.tag # None /\ result = NoResult
    /\ Converted("compact", "u8_to_type", u8_to_type(unwrap(input.tag)))

NextTags ==
    \/ binary_field_type_to_u8
    \/ binary_field_type_from_u8
    \/ compact_type_to_u8
    \/ compact_u8_to_type

SpecTags == InitTags /\ [][NextTags]_vars

-----------------------------------------------------------------------------
(* A field of type I64 of the compact codec, written and read back.           *)

\* (1 << n) - 1 for every n from 0 to 63, and -(1 << n)
I64Values == {ones(n) : n \in 0..63} \cup {not_ones(n) : n \in 0..63}

InitI64 ==
    /\ InitEncoder
    /\ InitBinaryEncoder(TRUE)
    /\ InitCompactDecoder(no_limits, <<>>)
    /\ InitBinaryDecoder(TRUE, no_limits, <<>>)
    /\ overflow_checks \in BOOLEAN
    /\ InitHistory
    /\ input \in {[proto |-> "compact", kind |-> "i64", value |-> v] : v \in I64Values}

\* write_field_begin of the field {"val", I64, 1}
compact_write_i64_field_begin ==
    /\ written.op = "none" /\ ops = <<>>
    /\ LET h == write_field_header(type_to_u8("I64"), 1)
       IN /\ last_write_field_id' = IF h.panic THEN last_write_field_id ELSE h.last
          /\ UNCHANGED <<write_field_id_stack, pending_write_bool_field_identifier>>
          /\ Call("field_begin", TFieldIdentifier(Some("val"), "I64", Some(1)), FALSE,
                  IF h.panic THEN <<>> ELSE h.bytes, h.panic)

compact_write_i64 ==
    /\ written.op = "field_begin" /\ Len(ops) = 1
    /\ UNCHANGED <<last_write_field_id, write_field_id_stack,
                   pending_write_bool_field_identifier>>
    /\ Call("i64", NoIdentifier, FALSE, write_i64(input.value), FALSE)

i_read_i64 ==
    /\ ~i_panicked
    /\ LET v == read_varint_i64(i_transport)
       IN /\ result' = [Returned("compact", "i64", IF v.err THEN "Transport" ELSE "Ok",
                                 v.used, None)
                           EXCEPT !.value = v.value]
          /\ i_transport' = SubSeqFrom(i_transport, v.used + 1)
    /\ UNCHANGED <<last_read_field_id, read_field_id_stack, pending_read_bool_value,
                   i_recursion_depth, i_panicked>>
    /\ i_frame

compact_read_i64 == input.proto = "compact" /\ Proceeding /\ i_read_i64 /\ NoStructs

NextI64 ==
    \/ compact_write_i64_field_begin
    \/ compact_write_i64
    \/ copy_write_buffer_to_read_buffer
    \/ compact_read_field_begin
    \/ compact_read_i64

SpecI64 == InitI64 /\ [][NextI64]_vars

-----------------------------------------------------------------------------
(* Messages over one channel: the fields of one struct, and                  *)
(* write_message_begin mirrored by read_message_begin on the bytes written.  *)

SessionMessages == {TMessageIdentifier(<<>>, "Call", 1)}

\* write_message_begin checks nothing: it runs whether or not a bool field is pending
write_message_begin ==
    /\ EncoderMayRun
    /\ \E identifier \in SessionMessages :
          /\ o_write_message_begin(identifier)
          /\ wellformed' = (wellformed /\ ~is_some(pending_write_bool_field_identifier))
          /\ ops' = IF ~wellformed' THEN <<>>
                    ELSE Append(ops, [op |-> "message_begin", field_type |-> "",
                                      id |-> None, b |-> FALSE])
    /\ UNCHANGED <<nesting, input>>

read_message_begin ==
    /\ MirrorHead({"message_begin"})
    /\ ops' = Tail(ops)
    /\ i_read_message_begin
    /\ UNCHANGED <<nesting, wellformed>>

NextSession ==
    \/ write_message_begin
    \/ write_field_begin
    \/ write_field_end
    \/ write_field_stop
    \/ write_bool
    \/ write_message_end
    \/ copy_write_buffer_to_read_buffer
    \/ read_field_begin
    \/ read_field_end
    \/ read_bool
    \/ read_message_end
    \/ read_message_begin

SpecSession == Init /\ [][NextSession]_vars

-----------------------------------------------------------------------------
(* Lists of elements of every type, written by the encoder of either codec  *)
(* and read back under a message budget: write_list_begin, one write per    *)
(* element, and read_list_begin once the message has arrived.               *)

MaxElements == 2    \* elements of a list

ContainerElementTypes ==
    {"Bool", "I08", "I16", "I32", "I64", "Double", "String", "Struct", "Map", "Set",
     "List", "Uuid"}

\* values of each type: for the 64-bit types the bits, lowest first; for a
\* struct the empty one; for a collection its size, the elements being Bools
ElementSamples(field_type) ==
    CASE field_type = "Bool" -> BOOLEAN
      [] field_type = "I08" -> {0, -1, 127}
      [] field_type = "I16" -> {0, -1, I16_MAX}
      [] field_type = "I32" -> {0, -1, 1073741823}
      [] field_type \in {"I64", "Double"} -> {ones(0), not_ones(0), ones(63)}
      [] field_type = "String" -> {<<>>, <<97>>}
      [] field_type = "Uuid" -> {[i \in 1..16 |-> 0], [i \in 1..16 |-> i]}
      [] field_type = "Struct" -> {"empty"}
      [] field_type \in {"Map", "Set", "List"} -> {0, 1}

\* byte j (0 the lowest) of a 64-bit value
byte_of_u64(u, j) ==
    bit_at(u, (8 * j) + 1) + (2 * bit_at(u, (8 * j) + 2)) + (4 * bit_at(u, (8 * j) + 3))
    + (8 * bit_at(u, (8 * j) + 4)) + (16 * bit_at(u, (8 * j) + 5))
    + (32 * bit_at(u, (8 * j) + 6)) + (64 * bit_at(u, (8 * j) + 7))
    + (128 * bit_at(u, (8 * j) + 8))

(* TBinaryOutputProtocol: the scalar and collection writes *)
bo_write_i8(i) == <<i % 256>>
\* write_i64::<BigEndian>
bo_write_i64(i) == [k \in 1..8 |-> byte_of_u64(i, 8 - k)]
\* write_f64::<BigEndian> of the value with bits d
bo_write_double(d) == bo_write_i64(d)
bo_write_uuid(uuid) == uuid
bo_write_list_begin(element_type, size) ==
    <<field_type_to_u8(element_type)>> \o write_i32(size)
bo_write_map_begin(key_type, val_type, size) ==
    <<field_type_to_u8(key_type), field_type_to_u8(val_type)>> \o write_i32(size)

\* the bytes the binary encoder writes for one value v of a type
binary_element(field_type, v) ==
    CASE field_type = "Bool" -> <<bo_bool(v)>>
      [] field_type = "I08" -> bo_write_i8(v)
      [] field_type = "I16" -> bo_write_i16(v)
      [] field_type = "I32" -> write_i32(v)
      [] field_type = "I64" -> bo_write_i64(v)
      [] field_type = "Double" -> bo_write_double(v)
      [] field_type = "String" -> bo_write_bytes(v)
      [] field_type = "Uuid" -> bo_write_uuid(v)
      [] field_type = "Struct" -> <<field_type_to_u8("Stop")>>
      [] field_type \in {"Set", "List"} ->
            bo_write_list_begin("Bool", v) \o [i \in 1..v |-> bo_bool(TRUE)]
      [] field_type = "Map" ->
            bo_write_map_begin("Bool", "Bool", v) \o [i \in 1..(2 * v) |-> bo_bool(TRUE)]

(* TCompactOutputProtocol: the scalar and collection writes *)
o_write_i8(i) == <<i % 256>>
o_write_i32(i) == encode_var(zigzag_encode(i))
\* write_f64::<LittleEndian> of the value with bits d
o_write_double(d) == [k \in 1..8 |-> byte_of_u64(d, k - 1)]
o_map_begin(key_type, val_type, size) ==
    IF size = 0 THEN <<0>>
    ELSE Append(encode_var_u32(size), o_map_type_header(key_type, val_type))

\* the bytes the compact encoder writes for one value v of a type
compact_element(field_type, v) ==
    CASE field_type = "Bool" -> <<bool_field_type_as_u8(v)>>
      [] field_type = "I08" -> o_write_i8(v)
      [] field_type = "I16" -> write_i16(v)
      [] field_type = "I32" -> o_write_i32(v)
      [] field_type = "I64" -> write_i64(v)
      [] field_type = "Double" -> o_write_double(v)
      [] field_type = "String" -> o_write_bytes(v)
      [] field_type = "Uuid" -> o_write_bytes(v)
      [] field_type = "Struct" -> <<type_to_u8("Stop")>>
      [] field_type \in {"Set", "List"} ->
            o_list_set_begin("Bool", v) \o [i \in 1..v |-> bool_field_type_as_u8(TRUE)]
      [] field_type = "Map" ->
            o_map_begin("Bool", "Bool", v)
                \o [i \in 1..(2 * v) |-> bool_field_type_as_u8(TRUE)]

o_write_element(bytes) ==
    /\ ~o_panicked
    /\ o_transport' = o_transport \o bytes
    /\ written' = CollectionCall("element", bytes, FALSE)
    /\ result' = NoResult
    /\ UNCHANGED <<last_write_field_id, write_field_id_stack,
                   pending_write_bool_field_identifier, o_panicked, bo_vars, i_vars,
                   bi_vars, overflow_checks>>

\* the list the caller writes, and the bytes written for it so far
SizedLists ==
    {[proto |-> proto, kind |-> "list", by |-> "nobody", element_type |-> t,
      size |-> n, wire |-> <<>>] :
        proto \in {"binary", "compact"}, t \in ContainerElementTypes, n \in 0..MaxElements}

MessageBudgets == {Some(1), Some(13), Some(40)}

InitSizes ==
    /\ InitEncoder
    /\ InitBinaryEncoder(TRUE)
    /\ input \in SizedLists
    /\ \E budget \in MessageBudgets :
          /\ InitCompactDecoder(TConfiguration(budget, None, None, None), <<>>)
          /\ InitBinaryDecoder(TRUE, TConfiguration(budget, None, None, None), <<>>)
    /\ overflow_checks \in BOOLEAN
    /\ InitHistory

Sent(op) ==
    /\ ops' = Append(ops, [op |-> op, field_type |-> input.element_type, id |-> None,
                           b |-> FALSE])
    /\ input' = [input EXCEPT !.wire = @ \o written'.bytes]
    /\ UNCHANGED <<nesting, wellformed>>

\* every element of the list has been written and is on its way to the decoder
Arrived(transport) == Len(ops) = input.size + 1 /\ transport = <<>> /\ result.op = "none"

sized_binary_write_list_begin ==
    /\ input.proto = "binary" /\ ops = <<>>
    /\ bo_call("list_begin", NoIdentifier, FALSE,
               bo_write_list_begin(input.element_type, input.size), "Ok")
    /\ Sent("list_begin")

sized_binary_write_element ==
    /\ input.proto = "binary" /\ ops # <<>> /\ Len(ops) <= input.size
    /\ \E v \in ElementSamples(input.element_type) :
          bo_call("element", NoIdentifier, FALSE,
                  binary_element(input.element_type, v), "Ok")
    /\ Sent("element")

sized_binary_read_list_begin ==
    /\ input.proto = "binary" /\ Arrived(bo_transport)
    /\ bi_read_list_begin("list_begin")
    /\ NoStructs

sized_compact_write_list_begin ==
    /\ input.proto = "compact" /\ ops = <<>>
    /\ o_write_list_set_begin("list_begin", input.element_type, input.size)
    /\ Sent("list_begin")

sized_compact_write_element ==
    /\ input.proto = "compact" /\ ops # <<>> /\ Len(ops) <= input.size
    /\ \E v \in ElementSamples(input.element_type) :
          o_write_element(compact_element(input.element_type, v))
    /\ Sent("element")

sized_compact_read_list_begin ==
    /\ input.proto = "compact" /\ Arrived(o_transport)
    /\ i_read_list_set_begin("list_begin")
    /\ NoStructs

NextSizes ==
    \/ sized_binary_write_list_begin
    \/ sized_binary_write_element
    \/ binary_copy_write_buffer_to_read_buffer
    \/ sized_binary_read_list_begin
    \/ sized_compact_write_list_begin
    \/ sized_compact_write_element
    \/ copy_write_buffer_to_read_buffer
    \/ sized_compact_read_list_begin

SpecSizes == InitSizes /\ [][NextSizes]_vars

-----------------------------------------------------------------------------
(* Properties of the compact codec over one channel (Spec) *)

\* the decoder has just returned from the mirrored read of a call of kind op
Mirrored(op) == is_some(result.expect) /\ unwrap(result.expect).op = op
Expected == unwrap(result.expect)

\* the field types a field carries a value of
ValueTypes == {t \in TType : has_compact_u8(t) /\ t # "Stop"}

\* C1: every field written by write_field_begin with a type other than Bool is
\* read back by the mirrored read_field_begin with the same type and id and no
\* name, whatever the order of the ids and the nesting of the structs, and the
\* mirrored read of a write_field_stop, and of nothing else, returns Stop with
\* no id.
C1_FieldsRoundTrip ==
    /\ Mirrored("field_begin") /\ Expected.field_type \in ValueTypes =>
          /\ result.op = "field_begin" /\ result.kind = "Ok"
          /\ result.field_type = Expected.field_type
          /\ result.id = Expected.id
          /\ result.name = None
    /\ Mirrored("field_stop") =>
          /\ result.op = "field_begin" /\ result.kind = "Ok"
          /\ result.field_type = "Stop" /\ result.id = None /\ result.name = None
    /\ result.op = "field_begin" /\ result.kind = "Ok" /\ result.field_type = "Stop" =>
          Mirrored("field_stop")

\* a field with id 0 read back inside a nested struct whose parent stands at id 16
C1_Witness ==
    /\ Mirrored("field_begin") /\ result.kind = "Ok"
    /\ result.field_type = "I32" /\ result.id = Some(0)
    /\ read_field_id_stack = <<0, 16>>

\* C2: on both sides struct_begin pushes the last field id and sets it to 0 and
\* the matching struct_end restores it: the id stack always holds, for each open
\* struct, the id its parent stood at, and the last field id is the id of the
\* previous field of the innermost open struct, so a field after a nested struct
\* is coded against the parent's previous field.
C2_StackRestores ==
    /\ wellformed /\ ~o_panicked =>
          /\ write_field_id_stack = nesting.w.open
          /\ last_write_field_id = nesting.w.prev
    /\ wellformed /\ ~i_panicked =>
          /\ read_field_id_stack = nesting.r.open
          /\ last_read_field_id = nesting.r.prev
    /\ written.op = "struct_begin" => last_write_field_id = 0
    /\ Mirrored("struct_begin") => last_read_field_id = 0

\* the decoder is back in the outermost struct, at the id 16 it had read there,
\* after a nested struct in which it had read a field
C2_Witness ==
    /\ Mirrored("struct_end") /\ result.kind = "Ok"
    /\ read_field_id_stack = <<0>> /\ last_read_field_id = 16
    /\ write_field_id_stack = <<0>> /\ last_write_field_id = 16

\* C4: with a bool field pending, write_field_end, write_field_stop,
\* write_struct_end and write_message_end panic, and nothing is written - no
\* Stop byte either.
C4_PendingBoolIsFatal ==
    written.pending0
    /\ written.op \in {"field_end", "field_stop", "struct_end", "message_end"}
    => written.panicked /\ written.bytes = <<>> /\ o_panicked

\* write_field_stop was called with a bool field pending
C4_Witness ==
    /\ written.op = "field_stop" /\ written.pending0 /\ written.panicked
    /\ is_some(pending_write_bool_field_identifier)
    /\ o_transport = <<>>

\* the header of a field with type nibble nib and the given id, after a field
\* with id last: the one-byte form with the id difference in the high nibble, or
\* the nibble followed by the zig-zag varint of the id
IsFieldHeader(bytes, nib, id, last) ==
    \/ /\ Len(bytes) = 1
       /\ bytes[1] % 16 = nib
       /\ bytes[1] \div 16 = wrap_i16(id - last)
       /\ bytes[1] \div 16 \in 1..15
    \/ bytes = <<nib>> \o write_i16(id)

\* C5: write_field_begin(Bool, id) writes nothing and stashes the identifier;
\* the write_bool(b) that follows writes the field header of id with type nibble
\* 1 for true and 2 for false and no value byte, sets the last written field id
\* to id and empties the slot; the mirrored read_field_begin returns (Bool, id)
\* and the mirrored read_bool returns b without reading a byte.
C5_BoolField ==
    /\ written.op = "field_begin" /\ written.identifier.field_type = "Bool"
       /\ ~written.panicked =>
          /\ written.bytes = <<>>
          /\ pending_write_bool_field_identifier = Some(written.identifier)
          /\ last_write_field_id = written.last0
    /\ written.op = "bool" /\ written.pending0 /\ ~written.panicked =>
          /\ IsFieldHeader(written.bytes, IF written.b THEN 1 ELSE 2,
                           unwrap(written.identifier.id), written.last0)
          /\ last_write_field_id = unwrap(written.identifier.id)
          /\ pending_write_bool_field_identifier = None
    /\ Mirrored("field_begin") /\ Expected.field_type = "Bool" =>
          /\ result.kind = "Ok" /\ result.field_type = "Bool"
          /\ result.id = Expected.id
    /\ Mirrored("bool") /\ Expected.field_type = "Bool" =>
          /\ result.op = "bool" /\ result.kind = "Ok"
          /\ result.b = Expected.b
          /\ result.used = 0

\* the value true of a bool field with id 16 has been read back, from no byte
C5_Witness ==
    /\ Mirrored("bool") /\ Expected.field_type = "Bool" /\ Expected.id = Some(16)
    /\ result.kind = "Ok" /\ result.b /\ result.used = 0
    /\ pending_read_bool_value = None /\ last_read_field_id = 16

\* C6: a field with a type other than Bool whose id is 1 to 15 above the last
\* written field id is written as the single byte (delta << 4) | type nibble.
C6_ShortFormUpTo15 ==
    /\ written.op = "field_begin" /\ ~written.panicked
    /\ written.identifier.field_type \in ValueTypes
    /\ unwrap(written.identifier.id) - written.last0 \in 1..15
    => written.bytes = <<16 * (unwrap(written.identifier.id) - written.last0)
                         + type_to_u8(written.identifier.field_type)>>

-----------------------------------------------------------------------------
(* Properties of both decoders on a peer's input (SpecDecode) *)

\* the type a tag on the wire names in the type tables of each codec, and the
\* fewest bytes one value of it takes
DeclaredType(proto, tag) ==
    IF proto = "binary"
    THEN CASE tag = 2 -> Some("Bool") [] tag = 10 -> Some("I64")
           [] tag = 16 -> Some("Uuid") [] OTHER -> None
    ELSE CASE tag \in {1, 2} -> Some("Bool") [] tag = 6 -> Some("I64")
           [] tag = 13 -> Some("Uuid") [] OTHER -> None

DeclaredBytes(proto, tag) ==
    CASE DeclaredType(proto, tag) = Some("Uuid") -> 16
      [] DeclaredType(proto, tag) = Some("I64") /\ proto = "binary" -> 8
      [] OTHER -> 1

RECURSIVE SumBytes(_, _)
SumBytes(proto, tags) ==
    IF tags = <<>> THEN 0 ELSE DeclaredBytes(proto, Head(tags)) + SumBytes(proto, Tail(tags))

\* an empty compact map carries no types byte
TypesOnWire(in) == ~(in.proto = "compact" /\ in.kind = "map" /\ in.size = 0)

TagsNameTypes(in) ==
    TypesOnWire(in) => \A i \in DOMAIN in.tags : is_some(DeclaredType(in.proto, in.tags[i]))

Transport == IF input.proto = "binary" THEN bi_transport ELSE i_transport
Config == IF input.proto = "binary" THEN bi_config ELSE i_config

\* the last call was the read of the whole input from its first byte
ReadOfInput(kind, ops_) ==
    /\ input.kind = kind
    /\ result.proto = input.proto
    /\ result.op \in ops_
    /\ result.used + Len(Transport) = Len(Wire(input))

ContainerRead ==
    \/ ReadOfInput("list", {"list_begin", "set_begin"})
    \/ ReadOfInput("map", {"map_begin"})

\* the header was accepted and the identifier returned is the one declared
Accepted ==
    /\ result.kind = "Ok"
    /\ result.size = input.size
    /\ IF input.kind = "list"
       THEN Some(result.field_type) = DeclaredType(input.proto, input.tags[1])
       ELSE IF TypesOnWire(input)
       THEN /\ result.key_type = DeclaredType(input.proto, input.tags[1])
            /\ result.value_type = DeclaredType(input.proto, input.tags[2])
       ELSE result.key_type = None /\ result.value_type = None

\* count elements of bytes each exceed budget
Exceeds(count, bytes, budget) == count > budget \/ count * bytes > budget

\* C3: with max_recursion_depth = cap, a read_struct_begin succeeds exactly
\* while fewer than cap structs are open and otherwise returns DepthLimit: from
\* depth 0, cap nested calls succeed and the next one fails.
C3_DepthLimit ==
    (result.op = "struct_begin" /\ wellformed /\ is_some(Config.max_recursion_depth))
        => LET cap == unwrap(Config.max_recursion_depth)
           IN /\ Len(nesting.r.open) <= cap
              /\ result.kind \in {"Ok", "DepthLimit"}
              /\ result.kind = "DepthLimit" => Len(nesting.r.open) = cap
              /\ result.kind = "Ok" => Len(nesting.r.open) >= 1

C3_Witness ==
    /\ result.op = "struct_begin" /\ result.kind = "DepthLimit" /\ wellformed
    /\ Config.max_recursion_depth = Some(MaxDepth)
    /\ Len(nesting.r.open) = MaxDepth

\* C7: a list, set or map header whose tags name types and whose declared
\* count is negative is answered with NegativeSize under every configuration.
C7_NegativeSize ==
    (ContainerRead /\ TagsNameTypes(input) /\ input.size < 0)
        => result.kind = "NegativeSize"

C7_Witness ==
    /\ ContainerRead /\ input.proto = "compact" /\ input.kind = "list"
    /\ input.size = -1 /\ result.kind = "NegativeSize"
    /\ is_some(Config.max_container_size) /\ is_some(Config.max_message_size)

\* C8: with max_container_size = cap, a header declaring n > cap elements is
\* answered with SizeLimit, and one declaring 0 <= n <= cap within the message
\* budget is accepted with the declared types and size.
C8_ContainerLimit ==
    (ContainerRead /\ TagsNameTypes(input) /\ is_some(Config.max_container_size))
        => LET cap == unwrap(Config.max_container_size)
               n == input.size
               within == is_some(Config.max_message_size) =>
                             ~Exceeds(n, SumBytes(input.proto, input.tags),
                                      unwrap(Config.max_message_size))
           IN /\ n > cap => result.kind = "SizeLimit"
              /\ (0 <= n /\ n <= cap /\ within) => Accepted

C8_Witness ==
    /\ ContainerRead /\ input.proto = "binary" /\ input.kind = "map"
    /\ Config.max_container_size = Some(input.size) /\ input.size > 0
    /\ Accepted

\* C9: with a message budget, a header declaring n >= 0 elements is accepted
\* only if n times the minimum size of an element is within the budget and is
\* otherwise answered with SizeLimit; a map's element is a key and a value.
C9_MessageBudget ==
    (ContainerRead /\ TagsNameTypes(input) /\ TypesOnWire(input) /\ input.size >= 0
     /\ is_some(Config.max_message_size))
        => LET over == Exceeds(input.size, SumBytes(input.proto, input.tags),
                               unwrap(Config.max_message_size))
           IN /\ result.kind = "Ok" => ~over
              /\ over => result.kind = "SizeLimit"

C9_Witness ==
    /\ ContainerRead /\ input.kind = "map" /\ result.kind = "SizeLimit"
    /\ Config.max_container_size = None
    /\ ~Exceeds(input.size, DeclaredBytes(input.proto, input.tags[1]),
                unwrap(Config.max_message_size))

\* the declared length is over the limit; the compact length is a u32, of
\* which a negative size stands for the values of 2^31 and more
OverStringLimit ==
    /\ is_some(Config.max_string_size)
    /\ \/ input.size > unwrap(Config.max_string_size)
       \/ input.proto = "compact" /\ input.size < 0

\* C10: read_bytes and read_string answer a negative length with NegativeSize
\* in binary and a length over max_string_size with SizeLimit in both codecs,
\* in either case leaving every byte after the length prefix in the transport;
\* a length within the limit is accepted and the bytes declared are returned.
C10_StringLimit ==
    ReadOfInput("bytes", {"bytes", "string"})
        => /\ (input.proto = "binary" /\ input.size < 0) => result.kind = "NegativeSize"
           /\ (OverStringLimit /\ ~(input.proto = "binary" /\ input.size < 0))
                  => result.kind = "SizeLimit"
           /\ result.kind \in {"NegativeSize", "SizeLimit"} => Transport = input.payload
           /\ (is_some(Config.max_string_size) /\ 0 <= input.size /\ ~OverStringLimit)
                  => /\ result.kind \notin {"NegativeSize", "SizeLimit"}
                     /\ (result.op = "bytes" /\ input.size <= Len(input.payload))
                            => /\ result.kind = "Ok"
                               /\ result.bytes = SubSeq(input.payload, 1, input.size)

C10_Witness ==
    /\ ReadOfInput("bytes", {"bytes", "string"})
    /\ input.proto = "compact" /\ result.kind = "SizeLimit"
    /\ input.size = 3 /\ Config.max_string_size = Some(2)
    /\ Len(input.payload) = MaxPayload /\ Transport = input.payload

\* C17: a map header read with size 0 has its key type and value type absent
\* and one read with a size above 0 has both present, in either codec; the
\* empty compact map is the one byte 0x00 and reading it consumes that byte
\* and succeeds under every configuration of limits.
C17_MapIdentifierTypes ==
    /\ (result.op = "map_begin" /\ result.kind = "Ok") =>
          IF result.size = 0
          THEN result.key_type = None /\ result.value_type = None
          ELSE is_some(result.key_type) /\ is_some(result.value_type)
    /\ (ReadOfInput("map", {"map_begin"}) /\ input.proto = "compact" /\ input.size = 0) =>
          /\ Wire(input) = <<0>>
          /\ result.kind = "Ok"
          /\ result.used = 1

-----------------------------------------------------------------------------
(* Properties of the message envelopes (SpecMessage) *)

\* the bytes on the wire of the decoder
SentWire(in) ==
    IF in.by = "peer" THEN MessageWire(in)
    ELSE IF in.proto = "compact" THEN o_message_begin(in.identifier)
    ELSE IF in.strict THEN bo_strict_message_begin(in.identifier)
    ELSE bo_non_strict_message_begin(in.identifier)

\* the last call was the read_message_begin of the whole input
MessageRead(proto, by) ==
    /\ input.proto = proto /\ input.kind = "message" /\ input.by = by
    /\ result.proto = proto /\ result.op = "message_begin"
    /\ result.used + Len(Transport) = Len(SentWire(input))

\* the name is within the limit of the decoder
NameFits(name) ==
    is_some(Config.max_string_size) => Len(name) <= unwrap(Config.max_string_size)

\* the kind a kind byte names
KindOfByte(b) ==
    CASE b = 1 -> "Call" [] b = 2 -> "Reply" [] b = 3 -> "Exception" [] b = 4 -> "OneWay"
      [] OTHER -> ""

KindByte(message_type) == CHOOSE b \in 1..4 : KindOfByte(b) = message_type

\* the decoder returned the identifier
ReturnedIdentifier(name, message_type, sequence_number) ==
    /\ result.kind = "Ok"
    /\ result.name = Some(name)
    /\ result.message_type = message_type
    /\ result.sequence_number = sequence_number

\* C11: whenever a decoder configured with max_string_size reads a
\* length-prefixed byte sequence - read_bytes, read_string, or the name of
\* read_message_begin - the buffer it allocates for it is no larger than the limit.
C11_LengthValidatedBeforeAllocation ==
    (result.op \in {"bytes", "string", "message_begin"}
     /\ is_some(Config.max_string_size))
        => result.alloc <= unwrap(Config.max_string_size)

C13_BinaryMessageRoundTrip ==
    /\ (written.op = "message_begin" /\ input.proto = "binary") =>
          LET id == input.identifier
              n == Len(id.name)
              bytes == written.bytes
          IN IF input.strict
             THEN /\ Len(bytes) = 12 + n
                  /\ SubSeq(bytes, 1, 4) = <<128, 1, 0, KindByte(id.message_type)>>
                  /\ read_i32(SubSeq(bytes, 5, 8)) = n
                  /\ SubSeq(bytes, 9, 8 + n) = id.name
                  /\ read_i32(SubSeq(bytes, 9 + n, 12 + n)) = id.sequence_number
             ELSE /\ Len(bytes) = 9 + n
                  /\ read_i32(SubSeq(bytes, 1, 4)) = n
                  /\ SubSeq(bytes, 5, 4 + n) = id.name
                  /\ bytes[5 + n] = KindByte(id.message_type)
                  /\ read_i32(SubSeq(bytes, 6 + n, 9 + n)) = id.sequence_number
    /\ (MessageRead("binary", "encoder") /\ input.strict = bi_strict
        /\ NameFits(input.identifier.name)) =>
          ReturnedIdentifier(input.identifier.name, input.identifier.message_type,
                             input.identifier.sequence_number)

\* a non-strict decoder has read back an Exception with the lowest sequence number
C13_Witness ==
    /\ MessageRead("binary", "encoder") /\ ~input.strict /\ ~bi_strict
    /\ ReturnedIdentifier(<<97, 97>>, "Exception", I32_MIN)

\* a step of the compact read_message_begin
MessageBeginStep ==
    /\ result'.op = "message_begin" /\ result'.proto = "compact"
    /\ o_transport' = o_transport
    /\ written' = NoCall

\* C14: compact read_message_begin returns BadVersion when the first byte is
\* not 0x82 or the low five bits of the second byte are not 1; when it succeeds
\* the last read field id is 0 afterwards; when it returns BadVersion the last
\* read field id, the id stack and the pending bool value are as before.
C14_CompactVersion ==
    [][MessageBeginStep =>
          /\ (i_transport # <<>> /\ i_transport[1] # 130) => result'.kind = "BadVersion"
          /\ (Len(i_transport) >= 2 /\ i_transport[1] = 130 /\ i_transport[2] % 32 # 1)
                => result'.kind = "BadVersion"
          /\ result'.kind = "Ok" => last_read_field_id' = 0
          /\ result'.kind = "BadVersion" =>
                UNCHANGED <<last_read_field_id, read_field_id_stack,
                            pending_read_bool_value>>]_vars

\* BadVersion for version 2, inside a struct after a bool field
C14_Witness ==
    /\ result.op = "message_begin" /\ result.proto = "compact"
    /\ result.kind = "BadVersion" /\ result.used = 2
    /\ last_read_field_id = 1 /\ pending_read_bool_value = Some(TRUE)
    /\ read_field_id_stack = <<0>>

\* the unsigned LEB128 varint of the 32 bits of i
RawVarint(i) ==
    IF i >= 0 THEN encode_var(i)
    ELSE LET low31 == (i + I32_MAX) + 1
         IN <<128 + (low31 % 128), 128 + ((low31 \div 128) % 128),
              128 + ((low31 \div 16384) % 128), 128 + ((low31 \div 2097152) % 128),
              8 + (low31 \div 268435456)>>

\* C15: compact write_message_begin carries the sequence number as the varint
\* of its 32 bits, not zig-zag, after 0x82 and the kind and version byte, and
\* read_message_begin returns the sequence number and kind that were written,
\* for every sequence number from i32::MIN to i32::MAX.
C15_CompactSequenceNumber ==
    /\ (written.op = "message_begin" /\ input.proto = "compact") =>
          LET id == input.identifier
              v == RawVarint(id.sequence_number)
          IN /\ Len(written.bytes) = 3 + Len(v) + Len(id.name)
             /\ SubSeq(written.bytes, 1, 2) = <<130, (32 * KindByte(id.message_type)) + 1>>
             /\ SubSeq(written.bytes, 3, 2 + Len(v)) = v
    /\ (MessageRead("compact", "encoder") /\ NameFits(input.identifier.name)) =>
          ReturnedIdentifier(input.identifier.name, input.identifier.message_type,
                             input.identifier.sequence_number)

\* a Reply with sequence number i32::MIN has been read back
C15_Witness ==
    /\ MessageRead("compact", "encoder")
    /\ ReturnedIdentifier(<<97>>, "Reply", I32_MIN)

-----------------------------------------------------------------------------
(* Properties of collection headers and bool values (SpecCollection) *)

\* the nibble of a type in the scalar table of the compact protocol
ScalarNibble(t) ==
    CASE t = "Stop" -> 0 [] t = "I08" -> 3 [] t = "I16" -> 4 [] t = "I32" -> 5
      [] t = "I64" -> 6 [] t = "Double" -> 7 [] t = "String" -> 8 [] t = "List" -> 9
      [] t = "Set" -> 10 [] t = "Map" -> 11 [] t = "Struct" -> 12 [] t = "Uuid" -> 13
      [] OTHER -> -1

\* the nibble of an element, key or value type in a collection header
CollectionNibble(t) == IF t = "Bool" THEN 1 ELSE ScalarNibble(t)

\* the fewest bytes one element of type t takes
ElementBytes(t) == CASE t = "Double" -> 8 [] t = "Uuid" -> 16 [] OTHER -> 1

\* count elements of bytes each are within the limits of the decoder
WithinLimits(count, bytes) ==
    /\ is_some(i_config.max_container_size) =>
          count <= unwrap(i_config.max_container_size)
    /\ is_some(i_config.max_message_size) =>
          ~Exceeds(count, bytes, unwrap(i_config.max_message_size))

\* the encoder has written the header of a list or set
ListSetWritten ==
    /\ input.by = "encoder" /\ input.op \in {"list_begin", "set_begin"}
    /\ written.op = input.op /\ ~written.panicked

\* the last call was the read, by the call that matches the write, of all the
\* encoder wrote
ReadOfWritten(ops_) ==
    /\ input.by = "encoder" /\ input.op \in ops_ /\ ~o_panicked
    /\ result.proto = "compact" /\ result.op = input.op
    /\ result.used + Len(i_transport) = Len(input.wire)
    /\ result.used > 0

\* C16: write_list_begin and write_set_begin write, for every element type
\* that has a nibble and every size from 0 to i32::MAX, the one byte
\* (size << 4) | nibble when size <= 14 and otherwise 0xF0 | nibble and the
\* size as a varint; read_list_begin and read_set_begin return the element
\* type and size written whenever the size is within the decoder's limits.
C16_ListSetHeader ==
    /\ ListSetWritten =>
          LET nibble == CollectionNibble(input.element_type)
          IN written.bytes = IF input.size <= 14 THEN <<(16 * input.size) + nibble>>
                             ELSE <<240 + nibble>> \o RawVarint(input.size)
    /\ (/\ ReadOfWritten({"list_begin", "set_begin"})
        /\ WithinLimits(input.size, ElementBytes(input.element_type))) =>
          /\ result.kind = "Ok"
          /\ result.field_type = input.element_type
          /\ result.size = input.size

\* a set of 15 structs has been read back by a decoder with a container limit
C16_Witness ==
    /\ ReadOfWritten({"set_begin"}) /\ result.kind = "Ok"
    /\ result.field_type = "Struct" /\ result.size = 15
    /\ is_some(i_config.max_container_size)

\* the bytes the last call of the decoder consumed
ReadBytes ==
    LET start == (Len(input.wire) - Len(i_transport)) - result.used
    IN SubSeq(input.wire, start + 1, start + result.used)

\* the type a nibble of a collection header names
TypeOfCollectionNibble(nibble) ==
    IF nibble \in {1, 2} THEN "Bool" ELSE CHOOSE t \in TType : ScalarNibble(t) = nibble

\* the encoder has written the whole header of a map that is not empty
MapWritten ==
    /\ input.by = "encoder" /\ input.op = "map_begin" /\ input.size # 0
    /\ written.op = "map_begin" /\ ~written.panicked

\* the last call was a read of a header from the wire of a peer or of the encoder
HeaderRead(ops_) ==
    /\ input.by # "nobody" /\ result.proto = "compact" /\ result.op \in ops_
    /\ result.used > 0

\* C18: in the headers of lists, sets and maps the encoder writes the nibble
\* 0x01 for Bool and the scalar nibble for every other type, and the decoder
\* takes both 0x01 and 0x02 for Bool and every other nibble for the type of the
\* scalar table.
C18_BoolInCollections ==
    /\ ListSetWritten =>
          written.bytes[1] % 16 = IF input.element_type = "Bool" THEN 1
                                  ELSE ScalarNibble(input.element_type)
    /\ MapWritten =>
          LET type_header == written.bytes[Len(written.bytes)]
          IN /\ type_header \div 16 = IF input.key_type = Some("Bool") THEN 1
                                      ELSE ScalarNibble(unwrap(input.key_type))
             /\ type_header % 16 = IF input.value_type = Some("Bool") THEN 1
                                   ELSE ScalarNibble(unwrap(input.value_type))
    /\ HeaderRead({"list_begin", "set_begin"}) =>
          LET nibble == ReadBytes[1] % 16
          IN /\ nibble \in {1, 2} => result.kind # "InvalidData"
             /\ result.kind = "Ok" => result.field_type = TypeOfCollectionNibble(nibble)
    /\ (HeaderRead({"map_begin"}) /\ result.kind = "Ok" /\ result.size # 0) =>
          LET type_header == ReadBytes[result.used]
          IN /\ result.key_type = Some(TypeOfCollectionNibble(type_header \div 16))
             /\ result.value_type = Some(TypeOfCollectionNibble(type_header % 16))

\* a peer's map header with the types byte 0x12 has been read as Bool to Bool
C18_Witness ==
    /\ HeaderRead({"map_begin"}) /\ input.by = "peer" /\ result.kind = "Ok"
    /\ ReadBytes = <<2, 18>>
    /\ result.key_type = Some("Bool") /\ result.value_type = Some("Bool")

\* a step that is the call op of the compact decoder
DecoderStep(op) ==
    /\ result'.op = op /\ result'.proto = "compact"
    /\ o_transport' = o_transport
    /\ written' = NoCall

\* C19: read_bool returns a pending bool value, leaving the slot empty and the
\* transport as it was; with none pending it reads one byte and returns false
\* for 0x00, true for 0x01, false for 0x02 and InvalidData for any other;
\* write_bool outside a field writes 0x01 for true and 0x02 for false, and the
\* read_bool of that byte returns the bool written.
C19_ReadBool ==
    [][/\ DecoderStep("bool") =>
             /\ pending_read_bool_value' = None
             /\ is_some(pending_read_bool_value) =>
                   /\ result'.kind = "Ok"
                   /\ result'.b = unwrap(pending_read_bool_value)
                   /\ i_transport' = i_transport
             /\ (pending_read_bool_value = None /\ i_transport # <<>>) =>
                   /\ i_transport' = Tail(i_transport)
                   /\ i_transport[1] = 0 => (result'.kind = "Ok" /\ result'.b = FALSE)
                   /\ i_transport[1] = 1 => (result'.kind = "Ok" /\ result'.b = TRUE)
                   /\ i_transport[1] = 2 => (result'.kind = "Ok" /\ result'.b = FALSE)
                   /\ i_transport[1] \notin {0, 1, 2} => result'.kind = "InvalidData"
             /\ (/\ pending_read_bool_value = None /\ input.by = "nobody"
                 /\ ops # <<>> /\ ops[1].op = "bool" /\ Len(i_transport) = 1) =>
                   (result'.kind = "Ok" /\ result'.b = ops[1].b)
       /\ (/\ written'.op = "bool" /\ written # written'
           /\ ~written'.pending0 /\ ~written'.panicked) =>
             written'.bytes = <<IF written'.b THEN 1 ELSE 2>>]_vars

\* after the header of a bool field carrying true and the read_bool of it, a
\* second read_bool has read the byte 0x02 as false
C19_Witness ==
    /\ input.by = "peer" /\ input.wire = <<17, 2>>
    /\ result.op = "bool" /\ result.kind = "Ok" /\ result.used = 1 /\ ~result.b
    /\ last_read_field_id = 1 /\ i_transport = <<>>

\* a step that is a call of the compact decoder that returned
DecoderReturned ==
    /\ result'.proto = "compact" /\ ~result'.panicked
    /\ o_transport' = o_transport
    /\ written' = NoCall

\* C20: the pending read bool slot is occupied exactly when the last
\* read_field_begin returned a Bool field and read_bool has not been called
\* since: a read_field_begin leaves it occupied if and only if it returned a
\* Bool field, a read_bool leaves it empty and no other call touches it.
C20_PendingReadBool ==
    [][DecoderReturned =>
          /\ result'.op = "field_begin" =>
                (is_some(pending_read_bool_value')
                    <=> (result'.kind = "Ok" /\ result'.field_type = "Bool"))
          /\ result'.op = "bool" => pending_read_bool_value' = None
          /\ result'.op \notin {"field_begin", "bool"} =>
                UNCHANGED pending_read_bool_value]_vars

-----------------------------------------------------------------------------
(* Claims checked under SpecFrames                                            *)

\* the bytes the last call of the binary decoder took from the wire
Consumed ==
    SubSeq(input.wire, (Len(input.wire) - Len(bi_transport) - result.used) + 1,
           Len(input.wire) - Len(bi_transport))

BinaryReturned(op) == result.proto = "binary" /\ result.op = op /\ result.kind = "Ok"

BinaryWritten(op) == input.proto = "binary" /\ input.by = "encoder" /\ input.op = op

\* C21: the binary read_bool returns true for every byte other than 0x00 and
\* false for 0x00 only; write_bool writes the one byte 0x01 for true and 0x00
\* for false.
C21_BinaryBool ==
    /\ BinaryReturned("bool") =>
          /\ result.used = 1
          /\ result.b = (Consumed[1] # 0)
    /\ BinaryWritten("bool") => input.wire = <<IF input.b THEN 1 ELSE 0>>

C21_Witness ==
    /\ BinaryReturned("bool")
    /\ Consumed[1] \notin {0, 1}
    /\ result.b

\* the unsigned value of two bytes in network order
BigEndian16(bytes) == (bytes[1] * 256) + bytes[2]

\* C22: the binary write_field_begin writes the tag byte and then the two
\* bytes of the id, most significant first, if and only if the type is not
\* Stop; an identifier of type Stop gives the one byte 0x00 with or without an
\* id, as write_field_stop does.
C22_FieldBeginBytes ==
    /\ (BinaryWritten("field_begin") /\ input.returned = "Ok") =>
          IF input.identifier.field_type = "Stop"
          THEN input.wire = <<0>>
          ELSE /\ Len(input.wire) = 3
               /\ input.wire[1] = field_type_to_u8(input.identifier.field_type)
               /\ BigEndian16(SubSeqFrom(input.wire, 2)) = unwrap(input.identifier.id) % 65536
    /\ BinaryWritten("field_stop") => input.wire = <<0>>

\* C23: the binary write_field_begin given a type other than Stop and no id
\* returns an Unknown protocol error and writes no byte to the transport.
C23_FieldBeginWithoutId ==
    (/\ BinaryWritten("field_begin")
     /\ input.identifier.id = None
     /\ input.identifier.field_type # "Stop") =>
        /\ input.returned = "Unknown"
        /\ input.wire = <<>>
        /\ bo_transport = <<>>

C23_Witness ==
    /\ BinaryWritten("field_begin")
    /\ input.identifier = TFieldIdentifier(None, "I32", None)
    /\ input.returned = "Unknown"

\* C24: the identifier read_field_begin returns, in the binary and in the
\* compact decoder, has an id for every field that is not Stop, no id for
\* Stop, and never a name.
C24_FieldBeginIdentifier ==
    (result.op = "field_begin" /\ result.kind = "Ok") =>
        /\ is_some(result.id) = (result.field_type # "Stop")
        /\ result.name = None

\* what the binary read_field_begin makes of the bytes it consumed: of a Stop
\* tag alone, Stop with the id 0; of another tag and the two bytes after it,
\* the type of the tag and the id the two bytes are in network order
FieldBeginOfWire ==
    BinaryReturned("field_begin") =>
        IF Consumed[1] = 0
        THEN /\ result.used = 1
             /\ result.field_type = "Stop"
             /\ result.id = Some(0)
        ELSE /\ result.used = 3
             /\ Ok(result.field_type) = field_type_from_u8(Consumed[1])
             /\ is_some(result.id)
             /\ unwrap(result.id) % 65536 = BigEndian16(SubSeqFrom(Consumed, 2))

\* the decoder's first call is a read_field_begin, of what write_field_begin
\* wrote for a field that is not Stop
FieldBeginRoundTrip ==
    /\ BinaryWritten("field_begin")
    /\ input.returned = "Ok"
    /\ input.identifier.field_type # "Stop"
    /\ BinaryReturned("field_begin")
    /\ Len(bi_transport) + result.used = Len(input.wire)

\* C25 as stated: the binary read_field_begin consumes one byte of a Stop tag
\* and returns Stop with id 0, consumes three bytes of any other valid tag, and
\* the type and id it returns are those write_field_begin was given.
C25_FieldBeginAsGiven ==
    /\ FieldBeginOfWire
    /\ FieldBeginRoundTrip =>
          /\ result.field_type = input.identifier.field_type
          /\ result.id = input.identifier.id

\* C25 as amended: the type and id returned are those write_field_begin was
\* given for every type but Utf7, which shares its tag with String and is
\* returned as String.
C25_FieldBeginRoundTrip ==
    /\ FieldBeginOfWire
    /\ FieldBeginRoundTrip =>
          /\ result.field_type = IF input.identifier.field_type = "Utf7" THEN "String"
                                 ELSE input.identifier.field_type
          /\ result.id = input.identifier.id

C25_Witness ==
    /\ FieldBeginRoundTrip
    /\ input.identifier = TFieldIdentifier(None, "I64", Some(256))
    /\ result.used = 3
    /\ result.id = Some(256)

\* C27: the compact write_uuid writes the sixteen bytes of the uuid and
\* nothing before them, and read_uuid consumes sixteen bytes and returns the
\* uuid they are.
C27_RawUuid ==
    /\ (input.proto = "compact" /\ input.by = "encoder" /\ input.op = "uuid") =>
          input.wire = input.uuid
    /\ (result.proto = "compact" /\ result.op = "uuid" /\ result.kind = "Ok") =>
          /\ result.used = 16
          /\ result.bytes = SubSeq(input.wire, 1, 16)

\* the decoder's first call has returned, and it is the mirror of the one
\* call the encoder made
MirroredRead(proto, written_op, read_op) ==
    /\ input.proto = proto /\ input.by = "encoder"
    /\ input.op = written_op /\ input.returned = "Ok"
    /\ result.proto = proto /\ result.op = read_op
    /\ Len(IF proto = "binary" THEN bi_transport ELSE i_transport) + result.used
          = Len(input.wire)

\* C31: what the encoder of a codec has written, the decoder of the same codec
\* reads back with the mirrored call: the field identifier that was given with
\* its name erased, and the scalar value that was given.
C31_RoundTrip ==
    /\ MirroredRead("binary", "field_begin", "field_begin") =>
          /\ result.kind = "Ok"
          /\ result.field_type = input.identifier.field_type
          /\ result.id = input.identifier.id
          /\ result.name = None
    /\ MirroredRead("binary", "bool", "bool") =>
          /\ result.kind = "Ok"
          /\ result.b = input.b
    /\ MirroredRead("compact", "uuid", "uuid") =>
          /\ result.kind = "Ok"
          /\ result.bytes = input.uuid

-----------------------------------------------------------------------------
(* Claims checked under SpecNesting                                           *)

FrameOps ==
    {"message_end", "struct_begin", "struct_end", "field_end", "list_end", "set_end",
     "map_end"}

Copying == copy_write_buffer_to_read_buffer \/ binary_copy_write_buffer_to_read_buffer

\* the step is a call of an encoder, one of called
EncoderCalled(called) == written'.op \in called /\ ~Copying

\* the step is a call of a decoder, one of called
DecoderCalled(called) == result'.op \in called /\ written' = NoCall /\ ~Copying

Transports == <<o_transport, i_transport, bo_transport, bi_transport>>

\* C26: in both codecs the calls message_end, struct_end, field_end, list_end,
\* set_end, map_end and struct_begin, of the encoder and of the decoder, write
\* no byte to a transport and read none from it; struct_begin and struct_end
\* update the depth counter and the id stack, with the last field id it saves
\* and restores, and but for that every call leaves the state of both codecs
\* as it was.
C26_NoFraming ==
    [][/\ EncoderCalled(FrameOps) =>
             /\ UNCHANGED Transports
             /\ UNCHANGED <<pending_write_bool_field_identifier, bo_strict>>
             /\ UNCHANGED <<last_read_field_id, read_field_id_stack, pending_read_bool_value,
                            i_config, i_recursion_depth, bi_strict, bi_config,
                            bi_recursion_depth>>
             /\ written'.op \notin {"struct_begin", "struct_end"} =>
                   UNCHANGED <<last_write_field_id, write_field_id_stack>>
       /\ DecoderCalled(FrameOps) =>
             /\ UNCHANGED Transports
             /\ UNCHANGED <<pending_read_bool_value, i_config, bi_strict, bi_config>>
             /\ UNCHANGED <<last_write_field_id, write_field_id_stack,
                            pending_write_bool_field_identifier, bo_strict>>
             /\ result'.op \notin {"struct_begin", "struct_end"} =>
                   UNCHANGED <<last_read_field_id, read_field_id_stack, i_recursion_depth,
                               bi_recursion_depth>>
             /\ result'.proto = "binary" =>
                   UNCHANGED <<last_read_field_id, read_field_id_stack, i_recursion_depth>>
             /\ result'.proto = "compact" => UNCHANGED bi_recursion_depth]_vars

\* a call of the binary decoder that reads nothing has returned with bytes
\* still to read
C26_Witness ==
    /\ result.proto = "binary" /\ result.op = "map_end" /\ result.kind = "Ok"
    /\ bi_transport = <<12, 0, 1>>

\* a counter of the decoder against its cap; a counter below zero is the
\* usize wrapped round to its maximum
DepthWithin(recursion_depth, config) ==
    /\ recursion_depth >= 0
    /\ is_some(config.max_recursion_depth) =>
          recursion_depth <= unwrap(config.max_recursion_depth)

\* C29: in every reachable state the depth counter of the binary and of the
\* compact decoder is the number of read_struct_begin calls that returned Ok
\* less the number of read_struct_end calls, is not negative and is not above
\* the cap configured, the cap being compared before the increment; a decoder
\* that has panicked is out of use.
C29_RecursionDepth ==
    /\ (input.proto = "binary" /\ ~bi_panicked) =>
          /\ DepthWithin(bi_recursion_depth, bi_config)
          /\ bi_recursion_depth = Len(nesting.r.open)
    /\ (input.proto = "compact" /\ ~i_panicked) =>
          /\ DepthWithin(i_recursion_depth, i_config)
          /\ i_recursion_depth = Len(nesting.r.open)

\* C30: in the compact codec a struct_end that no struct_begin matches, which
\* is write_struct_end or read_struct_end called with the id stack empty,
\* panics: it returns neither Ok nor an error.
C30_UnmatchedStructEnd ==
    [][/\ (/\ EncoderCalled({"struct_end"})
           /\ input.proto = "compact"
           /\ write_field_id_stack = <<>>) =>
             /\ written'.panicked
             /\ written'.kind = ""
             /\ o_panicked'
       /\ (/\ DecoderCalled({"struct_end"})
           /\ result'.proto = "compact"
           /\ read_field_id_stack = <<>>) =>
             /\ result'.panicked
             /\ result'.kind = ""
             /\ i_panicked']_vars

\* write_struct_end has panicked with no struct open and no bool field pending
C30_Witness ==
    /\ input.proto = "compact"
    /\ written.op = "struct_end"
    /\ written.panicked
    /\ ~written.pending0
    /\ write_field_id_stack = <<>>

\* C36: a read_struct_begin that returns DepthLimit changes nothing in the
\* decoder - not the depth counter and, in compact, not the id stack nor
\* last_read_field_id. The structs that are open are closed one by one by
\* read_struct_end, each call taking the counter down by one, and the
\* read_struct_begin that follows a read_struct_end succeeds.
C36_DepthLimitChangesNothing ==
    [][/\ (DecoderCalled({"struct_begin"}) /\ result'.kind = "DepthLimit") =>
             UNCHANGED <<i_recursion_depth, read_field_id_stack, last_read_field_id,
                         pending_read_bool_value, i_transport, i_panicked,
                         bi_recursion_depth, bi_transport, bi_panicked>>
       /\ (DecoderCalled({"struct_end"}) /\ wellformed /\ nesting.r.open # <<>>) =>
             /\ result'.kind = "Ok"
             /\ Len(nesting'.r.open) = Len(nesting.r.open) - 1
             /\ i_recursion_depth' =
                    IF input.proto = "compact" THEN Len(nesting'.r.open) ELSE 0
             /\ bi_recursion_depth' =
                    IF input.proto = "binary" THEN Len(nesting'.r.open) ELSE 0
             /\ input.proto = "compact" =>
                    /\ read_field_id_stack # <<>>
                    /\ read_field_id_stack =
                           read_field_id_stack' \o <<last_read_field_id'>>
                    /\ Len(read_field_id_stack') = Len(nesting'.r.open)
       /\ (/\ DecoderCalled({"struct_begin"})
           /\ result.op = "struct_end" /\ result.kind = "Ok" /\ wellformed) =>
             result'.kind = "Ok"]_vars

\* with one struct open under a cap of 1, in which a field with id 1 has been
\* read, read_struct_begin returned DepthLimit
C36_Witness ==
    /\ result.proto = "compact" /\ result.op = "struct_begin"
    /\ result.kind = "DepthLimit"
    /\ i_recursion_depth = 1 /\ read_field_id_stack = <<0>> /\ last_read_field_id = 1

-----------------------------------------------------------------------------
(* Claims checked under SpecTags                                              *)

\* the tags of the binary codec and the nibbles of the compact codec
BinaryTagTable == {0, 1, 2, 3, 4, 6, 8, 10, 11, 12, 13, 14, 15, 16}
CompactNibbleTable == {0} \cup 3..13

TypeConverted(proto) == result.proto = proto /\ input.field_type # None

ByteConverted(proto) == result.proto = proto /\ input.field_type = None

\* C28: in the binary codec the tag written for a type decodes as that type,
\* but for Utf7, which decodes as String; in the compact codec the nibble
\* written for a type that has one (Stop 0, I8 3, I16 4, I32 5, I64 6, Double 7,
\* String 8, List 9, Set 10, Map 11, Struct 12, Uuid 13) decodes as that type;
\* a byte that is in no row of a codec's table gives InvalidData.
C28_TagTables ==
    /\ TypeConverted("binary") =>
          /\ result.kind = "Ok"
          /\ result.field_type = IF unwrap(input.field_type) = "Utf7" THEN "String"
                                 ELSE unwrap(input.field_type)
    /\ TypeConverted("compact") =>
          /\ unwrap(input.tag) = ScalarNibble(unwrap(input.field_type))
          /\ result.kind = "Ok"
          /\ result.field_type = unwrap(input.field_type)
    /\ ByteConverted("binary") =>
          result.kind = IF unwrap(input.tag) \in BinaryTagTable THEN "Ok" ELSE "InvalidData"
    /\ ByteConverted("compact") =>
          result.kind = IF unwrap(input.tag) \in CompactNibbleTable THEN "Ok" ELSE "InvalidData"

\* Utf7 has come back as String, from the binary tables
C28_Witness ==
    /\ TypeConverted("binary")
    /\ input.field_type = Some("Utf7")
    /\ input.tag = Some(11)
    /\ result.field_type = "String"

-----------------------------------------------------------------------------
(* Claims checked under SpecI64                                               *)

\* the field header and the value were written, and both have been read
I64FieldRead ==
    /\ Len(ops) = 2
    /\ result.proto = "compact" /\ result.op = "i64"
    /\ i_transport = <<>> /\ o_transport = <<>>
    /\ result.used >= 1

\* C32: in the compact codec a field of type I64 written with the value
\* (1 << n) - 1, for every n from 0 to 63, is read back with that value.
C32_I64RoundTrip ==
    I64FieldRead =>
        /\ result.kind = "Ok"
        /\ result.value = input.value

\* i64::MAX has come back, from ten bytes
C32_Witness ==
    /\ I64FieldRead
    /\ input.value = ones(63)
    /\ result.used = 10
    /\ result.value = ones(63)

-----------------------------------------------------------------------------
(* The two forms of the compact field header (Spec) *)

\* the call just made wrote a field header: write_field_begin of a type other
\* than Bool, or the write_bool that follows write_field_begin of a Bool
HeaderWritten ==
    /\ ~written.panicked
    /\ is_some(written.identifier.id)
    /\ \/ written.op = "field_begin" /\ written.identifier.field_type # "Bool"
       \/ written.op = "bool" /\ written.pending0

HeaderNibble ==
    IF written.op = "bool" THEN bool_field_type_as_u8(written.b)
    ELSE type_to_u8(written.identifier.field_type)

\* the i16 delta write_field_header computed for the call just made
HeaderDelta == wrap_i16(unwrap(written.identifier.id) - written.last0)

HeaderCalled ==
    /\ is_some(written.identifier.id)
    /\ \/ /\ written.op = "field_begin" /\ ~written.pending0
          /\ written.identifier.field_type # "Bool"
          /\ has_compact_u8(written.identifier.field_type)
       \/ written.op = "bool" /\ written.pending0

\* C35: the field-id arithmetic stays within i16: for every last id and field
\* id the encoder's field_id - last_write_field_id, and for every
\* last_read_field_id and non-zero delta nibble the decoder's
\* last_read_field_id + delta, neither abort nor wrap.
C35_WithinI16 ==
    /\ [](HeaderCalled =>
            /\ ~written.panicked
            /\ in_i16(unwrap(written.identifier.id) - written.last0))
    /\ [][DecoderStep("field_begin") /\ i_transport # <<>>
          /\ i_transport[1] \div 16 # 0
          /\ is_ok(field_type_of(i_transport[1] % 16))
          /\ field_type_of(i_transport[1] % 16).v # "Stop" =>
             /\ ~result'.panicked
             /\ in_i16(last_read_field_id + i_transport[1] \div 16)]_vars

\* C37: the compact encoder has a bool field pending exactly from
\* write_field_begin of a Bool to the next write_bool; write_field_begin of a
\* Bool with one pending is fatal; and with a bool field pending no call other
\* than write_bool writes a byte or changes last_write_field_id or the id stack.
C37_PendingBool ==
    [][/\ (~is_some(pending_write_bool_field_identifier)
           /\ is_some(pending_write_bool_field_identifier')) =>
             /\ EncoderCalled({"field_begin"})
             /\ written'.identifier.field_type = "Bool"
       /\ (is_some(pending_write_bool_field_identifier)
           /\ ~is_some(pending_write_bool_field_identifier')) =>
             EncoderCalled({"bool"})
       /\ (EncoderCalled({"bool"}) /\ ~written'.panicked) =>
             ~is_some(pending_write_bool_field_identifier')
       /\ (/\ is_some(pending_write_bool_field_identifier)
           /\ EncoderCalled({"field_begin"})
           /\ written'.identifier.field_type = "Bool") =>
             written'.panicked
       /\ (/\ is_some(pending_write_bool_field_identifier)
           /\ written' # written
           /\ ~EncoderCalled({"bool"})) =>
             /\ written'.bytes = <<>>
             /\ UNCHANGED <<last_write_field_id, write_field_id_stack>>]_vars

-----------------------------------------------------------------------------
(* The pending bool of the compact decoder (SpecCollection) *)

\* the call before this one was a read_field_begin that returned a Bool field
BoolFieldBegun ==
    result.op = "field_begin" /\ result.kind = "Ok" /\ result.field_type = "Bool"

\* C38: in the compact decoder a read_bool other than the one that follows the
\* read_field_begin of a Bool field - the read_bool of a list, set or map
\* element, say - consumes exactly one byte of the transport, and the value a
\* read_field_begin left pending is gone after read_field_end, read_struct_end,
\* read_struct_begin and read_message_begin.
C38_StalePendingBool ==
    [][/\ (/\ DecoderCalled({"bool"}) /\ result'.proto = "compact"
           /\ result'.kind = "Ok"
           /\ ~BoolFieldBegun) =>
             /\ result'.used = 1
             /\ i_transport # <<>>
             /\ i_transport' = Tail(i_transport)
       /\ (/\ DecoderCalled({"field_end", "struct_end", "struct_begin", "message_begin"})
           /\ result'.proto = "compact"
           /\ result'.kind = "Ok") =>
             pending_read_bool_value' = None]_vars

\* C39: the compact read_field_begin is atomic on failure: when it returns an
\* error - InvalidData for a type nibble that names no type, or a transport
\* error on the header byte or on the long-form id - last_read_field_id, the id
\* stack and the pending bool value are as they were before the call.
C39_FieldBeginAtomic ==
    [][(DecoderStep("field_begin") /\ result'.kind \notin {"Ok", ""}) =>
          UNCHANGED <<last_read_field_id, read_field_id_stack,
                      pending_read_bool_value>>]_vars

-----------------------------------------------------------------------------
(* Claims checked under SpecSession                                          *)

\* every call the encoder has made has been mirrored by the decoder, and the
\* last mirrored read returned
AllMirrored ==
    /\ wellformed /\ ~o_panicked /\ ~i_panicked
    /\ ops = <<>> /\ o_transport = <<>>
    /\ result.proto = "compact" /\ result.kind = "Ok"

\* C33: encoder and decoder keep their field-id state in lockstep: after every
\* mirrored step of a sequence of message_begin, struct_begin, field_begin (with
\* write_bool for a Bool field), field_stop and struct_end, the decoder's
\* last_read_field_id equals the encoder's last_write_field_id and the two id
\* stacks are equal - after message_begin too.
C33_Lockstep ==
    AllMirrored =>
        /\ last_read_field_id = last_write_field_id
        /\ read_field_id_stack = write_field_id_stack

-----------------------------------------------------------------------------
(* Claims checked under SpecSizes                                            *)

\* what the codec of this run takes for the least size of one element
MinElementSize ==
    IF input.proto = "binary" THEN min_serialized_size(input.element_type)
    ELSE compact_protocol_min_serialized_size(input.element_type)

\* C40: min_serialized_size is a lower bound: for each codec and each type an
\* element of a container can have, no value of the type is written in fewer
\* bytes than min_serialized_size gives, so a list the encoder wrote in no more
\* bytes than max_message_size is not turned down by the size check of
\* read_list_begin.
C40_MinSizeIsLowerBound ==
    /\ written.op = "element" => Len(written.bytes) >= MinElementSize
    /\ (/\ result.op = "list_begin"
        /\ is_some(Config.max_message_size)
        /\ Len(input.wire) <= unwrap(Config.max_message_size)) =>
          /\ result.kind = "Ok"
          /\ result.field_type = input.element_type
          /\ result.size = input.size

\* a binary list of two I32 that takes the whole budget of 13 bytes was accepted
C40_Witness ==
    /\ result.proto = "binary" /\ result.op = "list_begin" /\ result.kind = "Ok"
    /\ input.element_type = "I32" /\ input.size = 2
    /\ Len(input.wire) = 13 /\ bi_config.max_message_size = Some(13)

====
